---- MODULE Spec2Model ----
(***************************************************************************)
(* A model of the afero in-memory filesystem (package memmapfs) and of the *)
(* read-only filter (package rofs) placed on top of it.                    *)
(*                                                                         *)
(* Paths are Go strings; they are modelled as sequences of one-character   *)
(* strings, so that filepath.Clean, filepath.Split and strings.HasPrefix   *)
(* are computed character by character as the Go library does.             *)
(***************************************************************************)
EXTENDS Integers, Sequences, FiniteSets, TLC

VARIABLES
    data,      \* Fs.data: map[string]*FileData, keyed by normalized path
    fh,        \* the afero.File handle most recently returned to the caller
    last,      \* the call that produced the current state and its result
    crashed,   \* TRUE once a call has ended in a Go panic
    calls,     \* the number of calls made so far
    layer,     \* Fs.data of a second memmapfs.Fs: the layer of an overlay
    dh,        \* the directory handle (afero.File) Readdir is called on
    cacheTime, \* the cache duration of the cache-on-read overlay
    threads,   \* the goroutines inside a call on the memmapfs.Fs
    mu,        \* Fs.mu, the sync.RWMutex of the memmapfs.Fs
    scan       \* the call of FileContainsAnyBytes in progress

vars ==
    <<data, fh, last, crashed, calls, layer, dh, cacheTime, threads, mu, scan>>

-----------------------------------------------------------------------------
(* Bounds of the model *)

\* longest file content, in bytes
MaxData == 1
\* longest sequence of calls made on one filesystem
MaxCalls == 3

-----------------------------------------------------------------------------
(* Strings *)

FilePathSeparator == "/"

Root == <<"/">>
Dot == <<".">>
DotDot == <<".", ".">>

\* strings.HasPrefix(s, prefix)
HasPrefix(s, prefix) ==
    /\ Len(prefix) <= Len(s)
    /\ SubSeq(s, 1, Len(prefix)) = prefix

\* index of the last separator of path, 0 when it has none
LastSep(path) ==
    IF \E i \in 1..Len(path) : path[i] = FilePathSeparator
    THEN CHOOSE i \in 1..Len(path) :
            /\ path[i] = FilePathSeparator
            /\ \A j \in (i+1)..Len(path) : path[j] # FilePathSeparator
    ELSE 0

\* filepath.Split(path): the part up to and including the last separator,
\* and the part after it
SplitDir(path) == SubSeq(path, 1, LastSep(path))
SplitFile(path) == SubSeq(path, LastSep(path) + 1, Len(path))

\* The operators below are written as CHOOSE r \in { body : p \in {arg} } :
\* TRUE, the value of body with p bound to the value of arg: arg is
\* evaluated once, however often body mentions p.

\* the elements of path between separators, in order (empty ones included)
RECURSIVE Elements(_)
Elements(path) ==
    CHOOSE elems \in
        { IF \A i \in 1..Len(p) : p[i] # FilePathSeparator
          THEN <<p>>
          ELSE LET i == CHOOSE k \in 1..Len(p) :
                          /\ p[k] = FilePathSeparator
                          /\ \A j \in 1..(k-1) : p[j] # FilePathSeparator
               IN <<SubSeq(p, 1, i - 1)>> \o Elements(SubSeq(p, i + 1, Len(p)))
          : p \in {path} } : TRUE

\* the elements kept by filepath.Clean: "" and "." are dropped, ".." removes
\* the element before it, is dropped at the root and is kept at the start of
\* a relative path
RECURSIVE CleanElements(_, _, _)
CleanElements(elems, out, rooted) ==
    CHOOSE kept \in
        { IF es = <<>> THEN o
          ELSE IF Head(es) = <<>> \/ Head(es) = Dot
          THEN CleanElements(Tail(es), o, rooted)
          ELSE IF Head(es) = DotDot
          THEN IF Len(o) > 0 /\ o[Len(o)] # DotDot
               THEN CleanElements(Tail(es), SubSeq(o, 1, Len(o) - 1), rooted)
               ELSE IF rooted
               THEN CleanElements(Tail(es), o, rooted)
               ELSE CleanElements(Tail(es), Append(o, Head(es)), rooted)
          ELSE CleanElements(Tail(es), Append(o, Head(es)), rooted)
          : es \in {elems}, o \in {out} } : TRUE

RECURSIVE JoinElements(_)
JoinElements(elems) ==
    CHOOSE joined \in
        { IF es = <<>> THEN <<>>
          ELSE IF Len(es) = 1 THEN Head(es)
          ELSE Head(es) \o <<FilePathSeparator>> \o JoinElements(Tail(es))
          : es \in {elems} } : TRUE

\* the path filepath.Clean makes of the elements it kept
Joined(out, rooted) ==
    IF out = <<>>
    THEN IF rooted THEN Root ELSE Dot
    ELSE IF rooted
    THEN <<FilePathSeparator>> \o JoinElements(out)
    ELSE JoinElements(out)

\* filepath.Clean(path)
Clean(path) ==
    CHOOSE cleaned \in
        { IF p = <<>> THEN Dot
          ELSE Joined(CleanElements(Elements(p), <<>>, p[1] = FilePathSeparator),
                      p[1] = FilePathSeparator)
          : p \in {path} } : TRUE

\* filepath.Dir(path)
Dir(path) == Clean(SplitDir(path))

normalizePath(path) ==
    CHOOSE n \in
        { IF p = Dot THEN Root
          ELSE IF p = DotDot THEN Root
          ELSE p
          : p \in {Clean(path)} } : TRUE

-----------------------------------------------------------------------------
(* File nodes (type FileData) and the helpers of the node package *)

\* os.FileMode is modelled as the set of its bits that are set
ModeDir == "ModeDir"
ModeTemporary == "ModeTemporary"

\* the error values the calls return
NoErr == "nil"
ErrNotExist == "ErrNotExist"
ErrExist == "ErrExist"
EPERM == "EPERM"
ErrReadOnly == "file handle is read only"
Panic == "panic"

\* A node: name, content, the child-set memDir (a nil map for a fresh file),
\* the dir flag, mode and modification time. held marks the node the handle
\* fh points at (the Go pointer File.fileData).
CreateFile(name, now) ==
    [name |-> name, data |-> <<>>, memDirNil |-> TRUE, memDir |-> {},
     dir |-> FALSE, mode |-> {ModeTemporary}, modtime |-> now, held |-> FALSE]

CreateDir(name) ==
    [name |-> name, data |-> <<>>, memDirNil |-> FALSE, memDir |-> {},
     dir |-> TRUE, mode |-> {}, modtime |-> 0, held |-> FALSE]

InitializeDir(d) ==
    IF d.memDirNil
    THEN [d EXCEPT !.dir = TRUE, !.memDirNil = FALSE, !.memDir = {}]
    ELSE d

AddToMemDir(d, fname) == [d EXCEPT !.memDir = @ \cup {fname}]

RemoveFromMemDir(d, fname) == [d EXCEPT !.memDir = @ \ {fname}]

ChangeFileName(f, newname) == [f EXCEPT !.name = newname]

SetMode(f, mode) == [f EXCEPT !.mode = mode]

SetModTime(f, mtime) == [f EXCEPT !.modtime = mtime]

\* FileInfo.IsDir
IsDir(f) == f.dir

-----------------------------------------------------------------------------
(* The store Fs.data *)

Put(st, k, v) == (k :> v) @@ st

Del(st, k) ==
    CHOOSE after \in
        { [p \in DOMAIN s \ {key} |-> s[p]] : s \in {st}, key \in {k} } : TRUE

\* getData: the map made on first use holds the root directory
getData == [p \in {Root} |-> CreateDir(Root)]

lockfreeOpen(st, name) ==
    LET At(n) ==
            IF n \in DOMAIN st
            THEN [ok |-> TRUE, key |-> n, err |-> NoErr]
            ELSE [ok |-> FALSE, key |-> n, err |-> ErrNotExist]
    IN At(normalizePath(name))

\* findParent(f) for the node named fname: ok = FALSE stands for nil
findParent(st, fname) == lockfreeOpen(st, Clean(SplitDir(fname)))

RECURSIVE registerWithParent(_, _)
RECURSIVE lockfreeMkdir(_, _)

\* registerWithParent(f) for the node stored under f; the result is the
\* store after the call
registerWithParent(m, f) ==
    CHOOSE after \in
        { LET add(s, key) ==
                  [s EXCEPT ![key] = AddToMemDir(InitializeDir(s[key]), fname)]
              Reopened(s, opened) ==
                  IF ~opened.ok THEN s ELSE add(s, opened.key)
              Missing(pdir) ==
                  CHOOSE s \in
                      { IF made.err # NoErr
                        THEN made.st
                        ELSE Reopened(made.st, lockfreeOpen(made.st, pdir))
                        : made \in {lockfreeMkdir(st, pdir)} } : TRUE
              Found(parent) ==
                  IF parent.ok
                  THEN add(st, parent.key)
                  ELSE Missing(Dir(Clean(fname)))
          IN Found(findParent(st, fname))
          : st \in {m}, fname \in {f} } : TRUE

lockfreeMkdir(m, name) ==
    CHOOSE made \in
        { IF n \in DOMAIN st
          THEN IF ~IsDir(st[n])
               THEN [st |-> st, err |-> ErrExist]
               ELSE [st |-> st, err |-> NoErr]
          ELSE [st |-> registerWithParent(Put(st, n, CreateDir(n)), n),
                err |-> NoErr]
          : st \in {m}, n \in {normalizePath(name)} } : TRUE

\* unRegisterWithParent(fileName): err is the returned error, or Panic when
\* the call panics (log.Panic on a nil parent, or the parent's nil child map)
unRegisterWithParent(m, fileName) ==
    CHOOSE after \in
        { LET Found(parent, fname) ==
                  IF ~parent.ok THEN [st |-> st, err |-> Panic]
                  ELSE IF st[parent.key].memDirNil THEN [st |-> st, err |-> Panic]
                  ELSE [st |-> [st EXCEPT ![parent.key] =
                                   RemoveFromMemDir(@, fname)],
                        err |-> NoErr]
              Opened(f) ==
                  IF ~f.ok
                  THEN [st |-> st, err |-> f.err]
                  ELSE Found(findParent(st, st[f.key].name), st[f.key].name)
          IN Opened(lockfreeOpen(st, name))
          : st \in {m}, name \in {fileName} } : TRUE

-----------------------------------------------------------------------------
(* The operations of memmapfs.Fs as functions of the store. Each yields the
   store after the call and the error returned (Panic when the call panics);
   the calls that return a file handle also yield the handle. *)

O_WRONLY == "O_WRONLY"
O_RDWR == "O_RDWR"
O_APPEND == "O_APPEND"
O_CREATE == "O_CREATE"
O_EXCL == "O_EXCL"
O_TRUNC == "O_TRUNC"
\* os.O_RDONLY is the flag word with no bit set
O_RDONLY == {}

\* no goroutine is inside a call, and nobody holds or awaits Fs.mu
NoThreads == <<>>
Unlocked == [w |-> 0, r |-> {}, wait |-> {}]

\* no call of FileContainsAnyBytes has been made
NoScan ==
    [pc |-> "idle", content |-> <<>>, at |-> 0, subslices |-> {}, buff |-> <<>>,
     i |-> 0, found |-> FALSE, err |-> "nil"]

NoHandle == [valid |-> FALSE, readOnly |-> FALSE, at |-> 0, via |-> "none"]

\* NewFileHandle / NewReadOnlyFileHandle: the node is the one marked held
NewFileHandle == [valid |-> TRUE, readOnly |-> FALSE, at |-> 0, via |-> "memmapfs"]
NewReadOnlyFileHandle == [valid |-> TRUE, readOnly |-> TRUE, at |-> 0, via |-> "memmapfs"]

\* the store without the marks that tell which node the handle points at
Plain(st) == [k \in DOMAIN st |-> [st[k] EXCEPT !.held = FALSE]]

\* the handle now points at the node stored under key (at no node of the
\* store when key is not in it)
Hold(st, key) == [p \in DOMAIN st |-> [st[p] EXCEPT !.held = (p = key)]]

\* a Create that stores the node and leaves the parent directory alone
DoCreateUnregistered(st, name, now) ==
    LET At(n) ==
            [st |-> Put(st, n, CreateFile(n, now)), err |-> NoErr, key |-> n,
             file |-> NewFileHandle]
    IN At(normalizePath(name))

DoCreate(st, name, now) ==
    LET At(n) ==
            [st |-> registerWithParent(Put(st, n, CreateFile(n, now)), n),
             err |-> NoErr, key |-> n, file |-> NewFileHandle]
    IN At(normalizePath(name))

DoChmod(st, name, mode) ==
    LET At(n) ==
            IF n \notin DOMAIN st
            THEN [st |-> st, err |-> ErrNotExist]
            ELSE [st |-> [st EXCEPT ![n] = SetMode(@, mode)], err |-> NoErr]
    IN At(normalizePath(name))

DoChtimes(st, name, mtime) ==
    LET At(n) ==
            IF n \notin DOMAIN st
            THEN [st |-> st, err |-> ErrNotExist]
            ELSE [st |-> [st EXCEPT ![n] = SetModTime(@, mtime)], err |-> NoErr]
    IN At(normalizePath(name))

DoMkdir(st, name, perm) ==
    LET At(n) ==
            IF n \in DOMAIN st
            THEN [st |-> st, err |-> ErrExist]
            ELSE [st |-> DoChmod(registerWithParent(Put(st, n, CreateDir(n)), n),
                                 n, perm \cup {ModeDir}).st,
                  err |-> NoErr]
    IN At(normalizePath(name))

DoMkdirAll(st, path, perm) ==
    LET Made(r) == IF r.err = ErrExist THEN [st |-> r.st, err |-> NoErr] ELSE r
    IN Made(DoMkdir(st, path, perm))

\* Fs.open
open(st, name) == lockfreeOpen(st, name)

DoOpen(st, name) ==
    LET Opened(f) ==
            IF f.ok
            THEN [st |-> st, err |-> NoErr, key |-> f.key,
                  file |-> NewReadOnlyFileHandle]
            ELSE [st |-> st, err |-> ErrNotExist, key |-> f.key,
                  file |-> NoHandle]
    IN Opened(open(st, name))

openWrite(st, name) ==
    LET Opened(f) ==
            IF f.ok
            THEN [st |-> st, err |-> NoErr, key |-> f.key, file |-> NewFileHandle]
            ELSE [st |-> st, err |-> ErrNotExist, key |-> f.key,
                  file |-> NoHandle]
    IN Opened(open(st, name))

\* File.Truncate(0) on the node under key
Truncate0(st, key, now) ==
    [st EXCEPT ![key] = SetModTime([@ EXCEPT !.data = <<>>], now)]

\* OpenFile: the handle is read-only when the flag word is O_RDONLY
FlagHandle(file, flag) ==
    IF flag = O_RDONLY THEN NewReadOnlyFileHandle ELSE file

\* OpenFile: O_APPEND seeks to the end of the content
FlagSeek(file, flag, size) ==
    IF O_APPEND \in flag THEN [file EXCEPT !.at = size] ELSE file

\* OpenFile: O_TRUNC with O_RDWR or O_WRONLY truncates the content
FlagTruncate(st, key, flag, now) ==
    IF O_TRUNC \in flag /\ flag \cap {O_RDWR, O_WRONLY} # {}
    THEN Truncate0(st, key, now)
    ELSE st

\* OpenFile: a file the call created gets the mode perm
FlagChmod(st, chmod, name, perm) ==
    IF chmod THEN DoChmod(st, name, perm).st ELSE st

\* OpenFile after openWrite or Create has returned c
OpenFileOn(c, chmod, name, flag, perm, now) ==
    IF c.err # NoErr
    THEN [st |-> c.st, err |-> c.err, key |-> c.key, file |-> NoHandle]
    ELSE [st |-> FlagChmod(FlagTruncate(c.st, c.key, flag, now),
                           chmod, name, perm),
          err |-> NoErr,
          key |-> c.key,
          file |-> FlagSeek(FlagHandle(c.file, flag), flag,
                            Len(c.st[c.key].data))]

DoOpenFile(st, name, flag, perm, now) ==
    IF ~open(st, name).ok /\ O_CREATE \in flag
    THEN OpenFileOn(DoCreate(st, name, now), TRUE, name, flag, perm, now)
    ELSE OpenFileOn(openWrite(st, name), FALSE, name, flag, perm, now)

DoRemove(st, name) ==
    LET Unregistered(u, n) ==
            IF u.err # NoErr
            THEN [st |-> st, err |-> u.err]
            ELSE [st |-> Del(u.st, n), err |-> NoErr]
        At(n) ==
            IF n \in DOMAIN st
            THEN Unregistered(unRegisterWithParent(st, n), n)
            ELSE [st |-> st, err |-> ErrNotExist]
    IN At(normalizePath(name))

DoRemoveAll(st, path) ==
    LET Unregistered(u, p) ==
            IF u.err = Panic
            THEN [st |-> st, err |-> Panic]
            ELSE [st |-> [k \in {q \in DOMAIN u.st : ~HasPrefix(q, p)} |->
                            u.st[k]],
                  err |-> NoErr]
        At(p) == Unregistered(unRegisterWithParent(st, p), p)
    IN At(normalizePath(path))

\* a Rename without the early return for oldname == newname
DoRenameAlways(st, oldname, newname) ==
    LET Unregistered(u, o, n) ==
            IF u.err = Panic
            THEN [st |-> st, err |-> Panic]
            ELSE [st |-> registerWithParent(
                            Put(Del(u.st, o), n, ChangeFileName(u.st[o], n)), n),
                  err |-> NoErr]
        At(o, n) ==
            IF o \in DOMAIN st
            THEN Unregistered(unRegisterWithParent(st, o), o, n)
            ELSE [st |-> st, err |-> ErrNotExist]
    IN At(normalizePath(oldname), normalizePath(newname))

DoRename(st, oldname, newname) ==
    LET Unregistered(o, n) ==
            CHOOSE r \in
                { IF u.err = Panic
                  THEN [st |-> st, err |-> Panic]
                  ELSE [st |-> registerWithParent(
                                  Put(Del(u.st, o), n,
                                      ChangeFileName(u.st[o], n)), n),
                        err |-> NoErr]
                  : u \in {unRegisterWithParent(st, o)} } : TRUE
        At(o, n) ==
            IF o = n THEN [st |-> st, err |-> NoErr]
            ELSE IF o \in DOMAIN st
            THEN Unregistered(o, n)
            ELSE [st |-> st, err |-> ErrNotExist]
    IN At(normalizePath(oldname), normalizePath(newname))

\* GetFileInfo of the node a successful Stat finds
DoStat(st, name) ==
    LET Opened(f) ==
            IF f.err # NoErr
            THEN [err |-> f.err, info |-> <<>>]
            ELSE [err |-> NoErr,
                  info |-> [name |-> st[f.key].name, isDir |-> IsDir(st[f.key]),
                            size |-> Len(st[f.key].data), mode |-> st[f.key].mode,
                            modTime |-> st[f.key].modtime]]
    IN Opened(DoOpen(st, name))

\* File.Write(b) through handle h: the content of the node after the call
WriteData(d, at, b) ==
    LET n == Len(b)
        tail == IF n + at < Len(d) THEN SubSeq(d, n + at + 1, Len(d)) ELSE <<>>
    IN IF at > Len(d)
       THEN d \o [i \in 1..(at - Len(d)) |-> "0"] \o b \o tail
       ELSE SubSeq(d, 1, at) \o b \o tail

\* File.Write(b) through handle h: the store after the call. A handle whose
\* node has left the store writes to a node no path reaches.
DoWrite(st, h, b, now) ==
    IF h.readOnly
    THEN [st |-> st, err |-> ErrReadOnly, file |-> h]
    ELSE LET held == {k \in DOMAIN st : st[k].held}
         IN [st |-> [k \in DOMAIN st |->
                        IF k \in held
                        THEN SetModTime([st[k] EXCEPT
                                 !.data = WriteData(@, h.at, b)], now)
                        ELSE st[k]],
             err |-> NoErr,
             file |-> [h EXCEPT !.at = @ + Len(b)]]

-----------------------------------------------------------------------------
(* The read-only filter rofs.Fs over a memmapfs source *)

RoOpenFileResult(st, name, flag, perm, now) ==
    IF flag \cap {O_WRONLY, O_RDWR, O_APPEND, O_CREATE, O_TRUNC} # {}
    THEN [st |-> st, err |-> EPERM, key |-> normalizePath(name), file |-> NoHandle]
    ELSE DoOpenFile(st, name, flag, perm, now)

RoOpenResult(st, name) == DoOpen(st, name)

\* a Stat answered from the store as it was when the filter was made
RoStatAtNew(st, name) == DoStat(getData, name)

RoStatResult(st, name) == DoStat(st, name)

\* Create, Mkdir, MkdirAll, Remove, RemoveAll, Rename, Chmod, Chtimes
RoDenied(st) == [st |-> st, err |-> EPERM]

\* The sources a read-only filter is put over, outermost first: a
\* memmapfs.Fs, which has no LstatIfPossible; the os filesystem, which has;
\* and read-only filters over either, which have (var _ afero.Lstater).
LstatSources ==
    { <<"memmapfs">>, <<"osfs">>, <<"rofs", "memmapfs">>, <<"rofs", "osfs">> }

\* source.(afero.Lstater): the source has the method LstatIfPossible
Lstater(source) == Head(source) \in {"osfs", "rofs"}

\* LstatIfPossible of the os filesystem on the tree st: Lstat was called
OsLstatIfPossible(st, name) ==
    [info |-> DoStat(st, name).info, lstat |-> TRUE, err |-> DoStat(st, name).err]

\* the fallback of the filter: Stat of the source, and false
RoStatFallback(st, name) ==
    [info |-> RoStatResult(st, name).info, lstat |-> FALSE,
     err |-> RoStatResult(st, name).err]

\* a filter that never asks its source for LstatIfPossible
RoLstatNeverDelegates(source, st, name) == RoStatFallback(st, name)

RECURSIVE RoLstatIfPossible(_, _, _)
\* rofs.Fs.LstatIfPossible(name) of a filter over source, whose tree is st
RoLstatIfPossible(source, st, name) ==
    IF Lstater(source)
    THEN IF Head(source) = "osfs"
         THEN OsLstatIfPossible(st, name)
         ELSE RoLstatIfPossible(Tail(source), st, name)
    ELSE RoStatFallback(st, name)

-----------------------------------------------------------------------------
(* The regular-expression filter regexpfs.Fs. Its source is a memmapfs.Fs or
   another filter: res is the chain of patterns between the caller and the
   memmapfs.Fs, outermost first, and <<>> is the memmapfs.Fs itself. *)

\* syscall.ENOENT
ENOENT == "ENOENT"

\* os.IsNotExist(err)
IsNotExist(err) == err \in {ErrNotExist, ENOENT}

\* a nil *regexp.Regexp, and the compiled patterns `b$` and `^a`
NilRe == [kind |-> "nil", text |-> <<>>]
ReEndsB == [kind |-> "suffix", text |-> <<"b">>]
ReStartsA == [kind |-> "prefix", text |-> <<"a">>]

\* strings.HasSuffix(s, suffix)
HasSuffix(s, suffix) ==
    /\ Len(suffix) <= Len(s)
    /\ SubSeq(s, Len(s) - Len(suffix) + 1, Len(s)) = suffix

\* re.MatchString(s) for a compiled pattern re
MatchString(re, s) ==
    IF re.kind = "suffix" THEN HasSuffix(s, re.text) ELSE HasPrefix(s, re.text)

\* a matchesName that looks at the last element of the path only
matchesBaseName(re, name) ==
    IF re = NilRe THEN NoErr
    ELSE IF MatchString(re, SplitFile(name)) THEN NoErr
    ELSE ENOENT

matchesName(re, name) ==
    IF re = NilRe THEN NoErr
    ELSE IF MatchString(re, name) THEN NoErr
    ELSE ENOENT

RECURSIVE SrcStat(_, _, _)
RECURSIVE SrcOpen(_, _, _)
RECURSIVE SrcOpenFile(_, _, _, _, _, _)
RECURSIVE SrcCreate(_, _, _, _)
RECURSIVE SrcRemove(_, _, _)
RECURSIVE SrcRemoveAll(_, _, _)
RECURSIVE SrcRename(_, _, _, _)
RECURSIVE SrcChmod(_, _, _, _)
RECURSIVE SrcChtimes(_, _, _, _)
RECURSIVE SrcMkdir(_, _, _, _)
RECURSIVE SrcMkdirAll(_, _, _, _)

\* fsutil.IsDir(fs, path), fs being the filesystem behind the chain res
FsIsDir(res, st, path) ==
    LET Of(fi) ==
            IF fi.err # NoErr
            THEN [dir |-> FALSE, err |-> fi.err]
            ELSE [dir |-> fi.info.isDir, err |-> NoErr]
    IN Of(SrcStat(res, st, path))

\* the error of dirOrMatches(name) in the outermost filter of res
dirOrMatches(res, st, name) ==
    LET Of(d) ==
            IF d.err # NoErr THEN d.err
            ELSE IF d.dir THEN NoErr
            ELSE matchesName(Head(res), name)
    IN Of(FsIsDir(Tail(res), st, name))

\* the error of Open's and RemoveAll's test: IsDir, then matchesName for a
\* path that is not a directory
notDirMatches(res, st, name) ==
    LET Of(d) ==
            IF d.err # NoErr THEN d.err
            ELSE IF ~d.dir THEN matchesName(Head(res), name)
            ELSE NoErr
    IN Of(FsIsDir(Tail(res), st, name))

ReChtimesResult(res, st, name, mtime) ==
    LET Of(err) ==
            IF err # NoErr THEN [st |-> st, err |-> err]
            ELSE SrcChtimes(Tail(res), st, name, mtime)
    IN Of(dirOrMatches(res, st, name))

ReChmodResult(res, st, name, mode) ==
    LET Of(err) ==
            IF err # NoErr THEN [st |-> st, err |-> err]
            ELSE SrcChmod(Tail(res), st, name, mode)
    IN Of(dirOrMatches(res, st, name))

ReStatResult(res, st, name) ==
    LET Of(err) ==
            IF err # NoErr THEN [err |-> err, info |-> <<>>]
            ELSE SrcStat(Tail(res), st, name)
    IN Of(dirOrMatches(res, st, name))

ReRenameResult(res, st, oldname, newname) ==
    LET Of(d) ==
            IF d.err # NoErr THEN [st |-> st, err |-> d.err]
            ELSE IF d.dir THEN [st |-> st, err |-> NoErr]
            ELSE IF matchesName(Head(res), oldname) # NoErr
            THEN [st |-> st, err |-> matchesName(Head(res), oldname)]
            ELSE IF matchesName(Head(res), newname) # NoErr
            THEN [st |-> st, err |-> matchesName(Head(res), newname)]
            ELSE SrcRename(Tail(res), st, oldname, newname)
    IN Of(FsIsDir(Tail(res), st, oldname))

ReRemoveAllResult(res, st, p) ==
    LET Of(err) ==
            IF err # NoErr THEN [st |-> st, err |-> err]
            ELSE SrcRemoveAll(Tail(res), st, p)
    IN Of(notDirMatches(res, st, p))

ReRemoveResult(res, st, name) ==
    LET Of(err) ==
            IF err # NoErr THEN [st |-> st, err |-> err]
            ELSE SrcRemove(Tail(res), st, name)
    IN Of(dirOrMatches(res, st, name))

ReOpenFileResult(res, st, name, flag, perm, now) ==
    LET Of(err) ==
            IF err # NoErr
            THEN [st |-> st, err |-> err, key |-> normalizePath(name),
                  file |-> NoHandle]
            ELSE SrcOpenFile(Tail(res), st, name, flag, perm, now)
    IN Of(dirOrMatches(res, st, name))

\* Open returns &File{f: f, re: r.re} with a nil error whatever the source's
\* Open returned
ReOpenResult(res, st, name) ==
    LET Of(err) ==
            IF err # NoErr
            THEN [st |-> st, err |-> err, key |-> normalizePath(name),
                  file |-> NoHandle]
            ELSE [SrcOpen(Tail(res), st, name) EXCEPT !.err = NoErr]
    IN Of(notDirMatches(res, st, name))

ReMkdirResult(res, st, n, p) == SrcMkdir(Tail(res), st, n, p)

ReMkdirAllResult(res, st, n, p) == SrcMkdirAll(Tail(res), st, n, p)

ReCreateResult(res, st, name, now) ==
    IF matchesName(Head(res), name) # NoErr
    THEN [st |-> st, err |-> matchesName(Head(res), name),
          key |-> normalizePath(name), file |-> NoHandle]
    ELSE SrcCreate(Tail(res), st, name, now)

\* the calls on r.source: the memmapfs.Fs when no filter is left in the chain
SrcStat(res, st, name) ==
    IF res = <<>> THEN DoStat(st, name) ELSE ReStatResult(res, st, name)
SrcOpen(res, st, name) ==
    IF res = <<>> THEN DoOpen(st, name) ELSE ReOpenResult(res, st, name)
SrcOpenFile(res, st, name, flag, perm, now) ==
    IF res = <<>> THEN DoOpenFile(st, name, flag, perm, now)
    ELSE ReOpenFileResult(res, st, name, flag, perm, now)
SrcCreate(res, st, name, now) ==
    IF res = <<>> THEN DoCreate(st, name, now)
    ELSE ReCreateResult(res, st, name, now)
SrcRemove(res, st, name) ==
    IF res = <<>> THEN DoRemove(st, name) ELSE ReRemoveResult(res, st, name)
SrcRemoveAll(res, st, p) ==
    IF res = <<>> THEN DoRemoveAll(st, p) ELSE ReRemoveAllResult(res, st, p)
SrcRename(res, st, oldname, newname) ==
    IF res = <<>> THEN DoRename(st, oldname, newname)
    ELSE ReRenameResult(res, st, oldname, newname)
SrcChmod(res, st, name, mode) ==
    IF res = <<>> THEN DoChmod(st, name, mode)
    ELSE ReChmodResult(res, st, name, mode)
SrcChtimes(res, st, name, mtime) ==
    IF res = <<>> THEN DoChtimes(st, name, mtime)
    ELSE ReChtimesResult(res, st, name, mtime)
SrcMkdir(res, st, n, p) ==
    IF res = <<>> THEN DoMkdir(st, n, p) ELSE ReMkdirResult(res, st, n, p)
SrcMkdirAll(res, st, n, p) ==
    IF res = <<>> THEN DoMkdirAll(st, n, p) ELSE ReMkdirAllResult(res, st, n, p)

-----------------------------------------------------------------------------
(* Directory handles: File.Readdir and File.Readdirnames *)

\* io.EOF
EOF == "EOF"

\* no directory handle is open. Of a handle: via is the filesystem that
\* returned it, res the patterns of the regexpfs.File wrappers around it
\* (outermost first), files the snapshot of the entries taken by the first
\* Readdir, count the entries served so far, out the entries the last
\* Readdir returned. The node of the handle is the one marked held; a handle
\* of the copy-on-write overlay has the path key of its directory instead.
NoDir ==
    [valid |-> FALSE, via |-> "none", res |-> <<>>, snapped |-> FALSE,
     files |-> <<>>, count |-> 0, out |-> <<>>, key |-> <<>>]

NewDir(via, res) ==
    [valid |-> TRUE, via |-> via, res |-> res, snapped |-> FALSE,
     files |-> <<>>, count |-> 0, out |-> <<>>, key |-> <<>>]

\* the elements of a set in a fixed order
RECURSIVE SeqOf(_)
SeqOf(S) ==
    IF S = {} THEN <<>>
    ELSE LET Then(x) == <<x>> \o SeqOf(S \ {x})
         IN Then(CHOOSE x \in S : TRUE)

\* FileInfo.Name(): filepath.Base of the node's name
Base(name) == IF name = Root THEN Root ELSE SplitFile(name)

\* the FileInfo of the child-set entry c: a child that has left the store
\* is listed as a file
DirEntry(st, c) ==
    [name |-> Base(c), isDir |-> c \in DOMAIN st /\ IsDir(st[c])]

\* the entries of the directory stored under key, in listing order
DirFiles(st, key) ==
    LET Of(cs) == [i \in 1..Len(cs) |-> DirEntry(st, cs[i])]
    IN Of(SeqOf(st[key].memDir))

\* the entries of the node the handle points at
HeldFiles(st) ==
    IF \E k \in DOMAIN st : st[k].held
    THEN DirFiles(st, CHOOSE k \in DOMAIN st : st[k].held)
    ELSE <<>>

\* a Readdir that returns io.EOF whenever no entry is left, whatever n is
ReaddirPageEOF(files, count, n) ==
    IF count = Len(files)
    THEN [out |-> <<>>, err |-> EOF, count |-> count]
    ELSE IF n > 0 /\ n < Len(files) - count
    THEN [out |-> SubSeq(files, count + 1, count + n), err |-> NoErr,
          count |-> count + n]
    ELSE [out |-> SubSeq(files, count + 1, Len(files)), err |-> NoErr,
          count |-> Len(files)]

\* one Readdir(n) on the entries files with count of them served: n > 0
\* serves at most n of the rest, and io.EOF when none is left; n <= 0 serves
\* the rest
ReaddirPage(files, count, n) ==
    LET Rest(rest) ==
            IF n > 0
            THEN IF rest = <<>>
                 THEN [out |-> <<>>, err |-> EOF, count |-> count]
                 ELSE IF Len(rest) < n
                 THEN [out |-> rest, err |-> NoErr, count |-> Len(files)]
                 ELSE [out |-> SubSeq(rest, 1, n), err |-> NoErr,
                       count |-> count + n]
            ELSE [out |-> rest, err |-> NoErr, count |-> Len(files)]
    IN Rest(SubSeq(files, count + 1, Len(files)))

\* regexpfs File.Readdir: the entries rfi the wrapped handle returned that
\* are directories or match re; MatchString on a nil pattern panics
ReFileReaddir(re, r) ==
    IF r.err # NoErr THEN [r EXCEPT !.out = <<>>]
    ELSE IF re = NilRe /\ \E i \in 1..Len(r.out) : ~r.out[i].isDir
    THEN [r EXCEPT !.out = <<>>, !.err = Panic]
    ELSE LET Kept(i) == i.isDir \/ MatchString(re, i.name)
         IN [r EXCEPT !.out = SelectSeq(r.out, Kept)]

\* a Readdir that filters by the outermost wrapper only
ReReaddirOuter(res, r) ==
    IF res = <<>> THEN r ELSE ReFileReaddir(Head(res), r)

\* Readdir through the wrappers res around a handle whose own Readdir
\* returned r
RECURSIVE ReReaddir(_, _)
ReReaddir(res, r) ==
    IF res = <<>> THEN r
    ELSE ReFileReaddir(Head(res), ReReaddir(Tail(res), r))

\* Readdirnames: the names of the entries Readdir returned
DirNames(out) == [i \in 1..Len(out) |-> out[i].name]

\* File.Readdir(n) on the handle d, files being the entries its node has
\* now: the handle after the call and the error
DoReaddir(d, files, n) ==
    LET Served(snap, r) ==
            [dh |-> [d EXCEPT !.snapped = TRUE, !.files = snap,
                              !.count = r.count, !.out = r.out],
             err |-> r.err]
        Paged(snap) ==
            Served(snap, ReReaddir(d.res, ReaddirPage(snap, d.count, n)))
    IN Paged(IF d.snapped THEN d.files ELSE files)

-----------------------------------------------------------------------------
(* copyutil.CopyToLayer(base, layer, name) on two memmapfs stores. fault is
   the step the filesystems make fail, "none" when none does; now is the
   instant of the layer's Create and Write. *)

\* syscall.EIO
EIO == "EIO"

\* the errors of a failing io.Copy, lfh.Close and layer.Chtimes
ErrCopy == "copy failed"
ErrClose == "close failed"
ErrChtimes == "chtimes failed"

Faults == { "none", "copy", "size", "close", "chtimes" }

\* fsutil.Exists(fs, path)
FsExists(st, path) == DoStat(st, path).err = NoErr

\* io.Copy(lfh, bfh): the bytes of the base file written at offset 0 of the
\* file just created under key
CopyBytes(l, key, bytes, now) ==
    IF bytes = <<>> THEN l
    ELSE [l EXCEPT ![key] =
             SetModTime([@ EXCEPT !.data = WriteData(@, 0, bytes)], now)]

\* layer.Remove(name); lfh.Close(); return err
CopyFailed(b, l, name, err) ==
    [base |-> b, layer |-> DoRemove(l, name).st, err |-> err]

\* a last step that leaves the modification time of the copy alone
KeepLayerTimes(l, name, mtime) == [st |-> l, err |-> NoErr]

\* layer.Chtimes(name, bfi.ModTime(), bfi.ModTime())
SetLayerTimes(l, name, mtime) == DoChtimes(l, name, mtime)

\* CopyToLayer from layer.Create on: f is the base file opened
CopyInto(b, l, name, fault, now, f) ==
    LET Timed(t) == [base |-> b, layer |-> t.st, err |-> t.err]
        Copied(c) ==
            IF fault = "size" THEN CopyFailed(b, c, name, EIO)
            ELSE IF fault = "close" THEN CopyFailed(b, c, name, ErrClose)
            ELSE IF fault = "chtimes"
            THEN [base |-> b, layer |-> c, err |-> ErrChtimes]
            ELSE Timed(SetLayerTimes(c, name, f.modtime))
        Created(c) ==
            IF c.err # NoErr THEN [base |-> b, layer |-> c.st, err |-> c.err]
            ELSE IF fault = "copy" THEN CopyFailed(b, c.st, name, ErrCopy)
            ELSE Copied(CopyBytes(c.st, c.key, f.data, now))
    IN Created(DoCreate(l, name, now))

CopyToLayer(b, l, name, fault, now) ==
    LET Made(m, bfh) ==
            IF m.err # NoErr THEN [base |-> bfh.st, layer |-> m.st, err |-> m.err]
            ELSE CopyInto(bfh.st, m.st, name, fault, now, bfh.st[bfh.key])
        Opened(bfh) ==
            IF bfh.err # NoErr
            THEN [base |-> bfh.st, layer |-> l, err |-> bfh.err]
            ELSE IF FsExists(l, Dir(name))
            THEN CopyInto(bfh.st, l, name, fault, now, bfh.st[bfh.key])
            ELSE Made(DoMkdirAll(l, Dir(name), {"0777"}), bfh)
    IN Opened(DoOpen(b, name))

-----------------------------------------------------------------------------
(* The copy-on-write overlay over the base store b and the layer store l.
   Each call yields the two stores after it and the error returned. *)

\* the path name is in the store st
InStore(st, name) == normalizePath(name) \in DOMAIN st

\* the result of a call that the overlay passes to the layer
OnLayer(b, r) == [base |-> b, layer |-> r.st, err |-> r.err]

\* the result of a call that returns a handle on a node of the layer
OnLayerFile(b, r) ==
    [base |-> b, layer |-> r.st, err |-> r.err, key |-> r.key, file |-> r.file]

\* the overlay refuses the call
CowRefused(b, l, err) == [base |-> b, layer |-> l, err |-> err]

CowRefusedFile(b, l, name, err) ==
    [base |-> b, layer |-> l, err |-> err, key |-> normalizePath(name),
     file |-> NoHandle]

\* the directory of name is made in the layer when the layer lacks it
CowParent(l, name) ==
    IF FsExists(l, Dir(name)) THEN [st |-> l, err |-> NoErr]
    ELSE DoMkdirAll(l, Dir(name), {"0777"})

\* promotion: an entry found only in the base is copied into the layer, a
\* file by CopyToLayer, a directory by MkdirAll
CowPromote(b, l, name, now) ==
    IF InStore(l, name) THEN CowRefused(b, l, NoErr)
    ELSE IF ~InStore(b, name) THEN CowRefused(b, l, ErrNotExist)
    ELSE IF IsDir(b[normalizePath(name)])
    THEN OnLayer(b, DoMkdirAll(l, name, {"0777"}))
    ELSE CopyToLayer(b, l, name, "none", now)

CowCreateResult(b, l, name, now) ==
    LET Made(m) ==
            IF m.err # NoErr THEN CowRefusedFile(b, m.st, name, m.err)
            ELSE OnLayerFile(b, DoCreate(m.st, name, now))
    IN Made(CowParent(l, name))

\* OpenFile with write intent
CowOpenFileResult(b, l, name, flag, perm, now) ==
    LET Made(m) ==
            IF m.err # NoErr THEN CowRefusedFile(b, m.st, name, m.err)
            ELSE OnLayerFile(b, DoOpenFile(m.st, name, flag, perm, now))
        Promoted(p) ==
            IF p.err = NoErr
            THEN OnLayerFile(p.base, DoOpenFile(p.layer, name, flag, perm, now))
            ELSE IF p.err = ErrNotExist /\ O_CREATE \in flag
            THEN Made(CowParent(l, name))
            ELSE CowRefusedFile(p.base, p.layer, name, p.err)
    IN Promoted(CowPromote(b, l, name, now))

\* a Mkdir that looks for the path in the layer only
CowMkdirOnLayer(b, l, name, perm) == OnLayer(b, DoMkdir(l, name, perm))

CowMkdirResult(b, l, name, perm) ==
    IF InStore(b, name) \/ InStore(l, name) THEN CowRefused(b, l, ErrExist)
    ELSE OnLayer(b, DoMkdir(l, name, perm))

CowMkdirAllResult(b, l, name, perm) ==
    LET At(n) ==
            IF \/ n \in DOMAIN b /\ IsDir(b[n])
               \/ n \in DOMAIN l /\ IsDir(l[n])
            THEN CowRefused(b, l, NoErr)
            ELSE IF n \in DOMAIN b THEN CowRefused(b, l, ErrExist)
            ELSE OnLayer(b, DoMkdirAll(l, name, perm))
    IN At(normalizePath(name))

\* a Remove that takes the path out of the layer whatever the base holds
CowRemoveFromLayer(b, l, name) == OnLayer(b, DoRemove(l, name))

CowRemoveResult(b, l, name) ==
    IF InStore(b, name) THEN CowRefused(b, l, EPERM)
    ELSE OnLayer(b, DoRemove(l, name))

CowRemoveAllResult(b, l, name) ==
    IF InStore(b, name) THEN CowRefused(b, l, EPERM)
    ELSE OnLayer(b, DoRemoveAll(l, name))

CowRenameResult(b, l, oldname, newname) ==
    IF InStore(b, oldname) \/ InStore(b, newname)
    THEN CowRefused(b, l, EPERM)
    ELSE OnLayer(b, DoRename(l, oldname, newname))

CowChmodResult(b, l, name, mode, now) ==
    LET Promoted(p) ==
            IF p.err # NoErr THEN p
            ELSE OnLayer(p.base, DoChmod(p.layer, name, mode))
    IN Promoted(CowPromote(b, l, name, now))

CowChtimesResult(b, l, name, mtime, now) ==
    LET Promoted(p) ==
            IF p.err # NoErr THEN p
            ELSE OnLayer(p.base, DoChtimes(p.layer, name, mtime))
    IN Promoted(CowPromote(b, l, name, now))

\* Open for reading: the layer when it has the path, else the base
CowOpenResult(b, l, name) ==
    IF InStore(l, name) \/ InStore(b, name)
    THEN [base |-> b, layer |-> l, err |-> NoErr, key |-> normalizePath(name)]
    ELSE [base |-> b, layer |-> l, err |-> ErrNotExist,
          key |-> normalizePath(name)]

\* a listing that puts the base entries after the layer entries, the names
\* the layer has too included
ConcatFiles(b, l, key) ==
    (IF key \in DOMAIN l THEN DirFiles(l, key) ELSE <<>>)
        \o (IF key \in DOMAIN b THEN DirFiles(b, key) ELSE <<>>)

\* the entries of the merged directory key: those of the layer, then those
\* of the base whose name the layer does not have
MergedFiles(b, l, key) ==
    LET Merge(lf, bf) ==
            LET New(e) == \A i \in 1..Len(lf) : lf[i].name # e.name
            IN lf \o SelectSeq(bf, New)
    IN Merge(IF key \in DOMAIN l THEN DirFiles(l, key) ELSE <<>>,
             IF key \in DOMAIN b THEN DirFiles(b, key) ELSE <<>>)

\* the handle Open returns on the merged directory key
CowDir(key) == [NewDir("cowfs", <<>>) EXCEPT !.key = key]

-----------------------------------------------------------------------------
(* The cache-on-read overlay over the base store b and the layer store l,
   with cache duration ttl. A file handle of the overlay is on the node of
   the layer marked held and, when Create returned it, on the node of the
   base marked held as well. *)

\* a cache status that never finds the copy of the layer stale
cacheStatusPinned(b, l, key, ttl) ==
    IF key \notin DOMAIN l THEN "no-cache"
    ELSE IF key \in DOMAIN b THEN "hit"
    ELSE "local"

\* the cache status of the path key
cacheStatus(b, l, key, ttl) ==
    IF key \notin DOMAIN l THEN "no-cache"
    ELSE IF key \notin DOMAIN b THEN "local"
    ELSE IF ttl > 0 /\ b[key].modtime - l[key].modtime >= ttl THEN "stale"
    ELSE "hit"

\* Open: the file is copied to the layer when the status is no-cache or
\* stale, and the handle is one of the layer
CacheOpenResult(b, l, name, ttl, now) ==
    LET Opened(c, status, lfh) ==
            [base |-> c.base, layer |-> c.layer, err |-> lfh.err,
             key |-> lfh.key, file |-> lfh.file, status |-> status]
        Served(c, status) ==
            IF c.err # NoErr
            THEN [base |-> c.base, layer |-> c.layer, err |-> c.err,
                  key |-> normalizePath(name), file |-> NoHandle,
                  status |-> status]
            ELSE Opened(c, status, DoOpen(c.layer, name))
        On(status) ==
            IF status \in {"no-cache", "stale"}
            THEN Served(CopyToLayer(b, l, name, "none", now), status)
            ELSE Served([base |-> b, layer |-> l, err |-> NoErr], status)
    IN On(cacheStatus(b, l, normalizePath(name), ttl))

\* a Create that makes the file in the layer alone
CacheCreateInLayer(b, l, name, now) ==
    LET Made(lf) ==
            [base |-> b, layer |-> Hold(lf.st, lf.key), err |-> lf.err,
             key |-> lf.key, file |-> lf.file]
    IN Made(DoCreate(l, name, now))

\* Create: the file is created in the base and in the layer, and the handle
\* is on both nodes
CacheCreateResult(b, l, name, now) ==
    LET Made(bf, lf) ==
            IF bf.err # NoErr
            THEN [base |-> bf.st, layer |-> l, err |-> bf.err, key |-> bf.key,
                  file |-> NoHandle]
            ELSE IF lf.err # NoErr
            THEN [base |-> bf.st, layer |-> lf.st, err |-> lf.err,
                  key |-> bf.key, file |-> NoHandle]
            ELSE [base |-> Hold(bf.st, bf.key), layer |-> Hold(lf.st, lf.key),
                  err |-> NoErr, key |-> bf.key, file |-> lf.file]
    IN Made(DoCreate(b, name, now), DoCreate(l, name, now))

\* a Write that reaches the node of the layer alone
CacheWriteToLayer(b, l, h, bytes, now) ==
    LET Written(lw) ==
            [base |-> b, layer |-> lw.st, err |-> lw.err, file |-> lw.file]
    IN Written(DoWrite(l, h, bytes, now))

\* Write through the handle h: the bytes go to the node of the layer and to
\* the node of the base the handle is on
CacheWriteResult(b, l, h, bytes, now) ==
    LET Written(lw, bw) ==
            [base |-> IF lw.err = NoErr THEN bw.st ELSE b, layer |-> lw.st,
             err |-> lw.err, file |-> lw.file]
    IN Written(DoWrite(l, h, bytes, now), DoWrite(b, h, bytes, now))

\* Seek(0, SEEK_SET) and Read of n bytes through the handle h: the handle
\* after them (both nodes are read from the same offset)
CacheReadResult(l, h, n) ==
    LET Size(held) == IF held = {} THEN 0 ELSE Len(l[CHOOSE k \in held : TRUE].data)
        Upto(size) == [h EXCEPT !.at = IF n < size THEN n ELSE size]
    IN Upto(Size({k \in DOMAIN l : l[k].held}))

\* Close: the handle can no longer be used
CacheCloseResult(h) == [h EXCEPT !.valid = FALSE]

-----------------------------------------------------------------------------
(* Inputs of the calls *)

\* "/", ".", "..", "/a", "/ab", "/a/b"
Names ==
    { Root, Dot, DotDot,
      <<"/", "a">>, <<"/", "a", "b">>, <<"/", "a", "/", "b">> }

\* "/", "/a", "/a/"
FileNames == { Root, <<"/", "a">>, <<"/", "a", "/">> }

FlagWords ==
    { O_RDONLY, {O_WRONLY}, {O_RDWR}, {O_APPEND}, {O_EXCL}, {O_CREATE},
      {O_CREATE, O_EXCL}, {O_CREATE, O_EXCL, O_RDWR}, {O_TRUNC},
      {O_TRUNC, O_WRONLY}, {O_APPEND, O_WRONLY} }

Perms == { {"0644"} }

Modes == { {"0600"}, {ModeDir, "0755"} }

\* the instants time.Now() returns and Chtimes is given; 0 is the zero Time
Times == { 1, 2 }

\* the instant time.Now() returns during Create and OpenFile
FsTimes == { 1 }

Bytes == { "x", "y" }

\* the pattern of a filter
Regexps == { NilRe, ReEndsB, ReStartsA }

\* the filters between the caller and the memmapfs.Fs: one filter, or the
\* filter `^a` over the filter `b$`
Chains == { <<re>> : re \in Regexps } \cup { <<ReStartsA, ReEndsB>> }

\* "/a", "/b", "/a/b"
ReNames == { <<"/", "a">>, <<"/", "b">>, <<"/", "a", "/", "b">> }

\* the paths opened for Readdir: "/", "/a"
ReDirs == { Root, <<"/", "a">> }

ReModes == { {"0600"} }

ReFlagWords == { O_RDONLY, {O_RDWR}, {O_CREATE, O_RDWR} }

\* the count argument of Readdir
Counts == { -1, 0, 1, 2 }

\* the store after Create of each of the names, in order
RECURSIVE Created(_, _)
Created(st, names) ==
    IF names = <<>> THEN st
    ELSE Created(DoCreate(st, Head(names), 1).st, Tail(names))

\* the stores a run through the filter starts from: a new memmapfs.Fs; one
\* with the files /a/b and /b; one with the directory /a holding the files
\* ab, a, b and the directory d
SeedStores ==
    { getData,
      Created(getData, << <<"/", "a", "/", "b">>, <<"/", "b">> >>),
      DoMkdir(Created(getData, << <<"/", "a", "/", "a", "b">>,
                                  <<"/", "a", "/", "a">>,
                                  <<"/", "a", "/", "b">> >>),
              <<"/", "a", "/", "d">>, {"0755"}).st }

-----------------------------------------------------------------------------
(* The state machine: one action per call. keep tells whether the caller
   keeps the file handle a call returns (it becomes fh) or drops it; now is
   the instant time.Now() returns during the call. *)

Init ==
    /\ data = getData
    /\ fh = NoHandle
    /\ last = [op |-> "New", via |-> "memmapfs", err |-> NoErr, made |-> 0]
    /\ crashed = FALSE
    /\ calls = 0
    /\ layer = getData
    /\ dh = NoDir
    /\ cacheTime = 0
    /\ threads = NoThreads
    /\ mu = Unlocked
    /\ scan = NoScan

\* a call can be made: no call has panicked, and the run is not at its bound
Running == ~crashed /\ calls < MaxCalls

\* the record of the call op made through via, which returns r; made counts
\* the paths the call added to the store
Returns(op, via, r) ==
    /\ crashed' = (r.err = Panic)
    /\ calls' = calls + 1
    /\ UNCHANGED <<cacheTime, threads, mu, scan>>
    /\ last' = [op |-> op, via |-> via, err |-> r.err,
                made |-> Cardinality(DOMAIN r.st \ DOMAIN data)]

\* a call that returns the handle r.file on the node under r.key
ReturnsFile(op, via, r, keep) ==
    /\ Returns(op, via, r)
    /\ IF r.err = NoErr /\ keep
       THEN /\ data' = Hold(r.st, r.key)
            /\ fh' = [r.file EXCEPT !.via = via]
       ELSE /\ data' = r.st
            /\ fh' = fh
    /\ UNCHANGED <<layer, dh>>

ReturnsErr(op, via, r) ==
    /\ Returns(op, via, r)
    /\ data' = r.st
    /\ fh' = fh
    /\ UNCHANGED <<layer, dh>>

Create(name, keep, now) ==
    /\ Running
    /\ ReturnsFile("Create", "memmapfs", DoCreate(data, name, now), keep)

Mkdir(name, perm) ==
    /\ Running
    /\ ReturnsErr("Mkdir", "memmapfs", DoMkdir(data, name, perm))

MkdirAll(path, perm) ==
    /\ Running
    /\ ReturnsErr("MkdirAll", "memmapfs", DoMkdirAll(data, path, perm))

Open(name, keep) ==
    /\ Running
    /\ ReturnsFile("Open", "memmapfs", DoOpen(data, name), keep)

OpenFile(name, flag, perm, keep, now) ==
    /\ Running
    /\ ReturnsFile("OpenFile", "memmapfs",
                   DoOpenFile(data, name, flag, perm, now), keep)

Remove(name) ==
    /\ Running
    /\ ReturnsErr("Remove", "memmapfs", DoRemove(data, name))

RemoveAll(path) ==
    /\ Running
    /\ ReturnsErr("RemoveAll", "memmapfs", DoRemoveAll(data, path))

Rename(oldname, newname) ==
    /\ Running
    /\ ReturnsErr("Rename", "memmapfs", DoRename(data, oldname, newname))

Stat(name) ==
    /\ Running
    /\ ReturnsErr("Stat", "memmapfs", [st |-> data, err |-> DoStat(data, name).err])

Chmod(name, mode) ==
    /\ Running
    /\ ReturnsErr("Chmod", "memmapfs", DoChmod(data, name, mode))

Chtimes(name, mtime) ==
    /\ Running
    /\ ReturnsErr("Chtimes", "memmapfs", DoChtimes(data, name, mtime))

\* Write of one byte through the handle fh
Write(b, now) ==
    /\ Running
    /\ fh.valid
    /\ LET r == DoWrite(data, fh, <<b>>, now)
       IN /\ \A k \in DOMAIN r.st : Len(r.st[k].data) <= MaxData
          /\ Returns("Write", fh.via, r)
          /\ data' = r.st
          /\ fh' = r.file
    /\ UNCHANGED <<layer, dh>>

RoCreate(name) ==
    /\ Running
    /\ ReturnsErr("Create", "rofs", RoDenied(data))

RoMkdir(name, perm) ==
    /\ Running
    /\ ReturnsErr("Mkdir", "rofs", RoDenied(data))

RoMkdirAll(path, perm) ==
    /\ Running
    /\ ReturnsErr("MkdirAll", "rofs", RoDenied(data))

RoRemove(name) ==
    /\ Running
    /\ ReturnsErr("Remove", "rofs", RoDenied(data))

RoRemoveAll(path) ==
    /\ Running
    /\ ReturnsErr("RemoveAll", "rofs", RoDenied(data))

RoRename(oldname, newname) ==
    /\ Running
    /\ ReturnsErr("Rename", "rofs", RoDenied(data))

RoChmod(name, mode) ==
    /\ Running
    /\ ReturnsErr("Chmod", "rofs", RoDenied(data))

RoChtimes(name, mtime) ==
    /\ Running
    /\ ReturnsErr("Chtimes", "rofs", RoDenied(data))

RoOpenFile(name, flag, perm, keep, now) ==
    /\ Running
    /\ ReturnsFile("OpenFile", "rofs",
                   RoOpenFileResult(data, name, flag, perm, now), keep)

RoOpen(name, keep) ==
    /\ Running
    /\ ReturnsFile("Open", "rofs", RoOpenResult(data, name), keep)

RoStat(name) ==
    /\ Running
    /\ ReturnsErr("Stat", "rofs", [st |-> data, err |-> RoStatResult(data, name).err])

\* LstatIfPossible through a filter over source; the record of the call
\* keeps the boolean it returned
RoLstatReturns(r) ==
    /\ crashed' = (r.err = Panic)
    /\ calls' = calls + 1
    /\ UNCHANGED <<cacheTime, threads, mu, scan>>
    /\ last' = [op |-> "LstatIfPossible", via |-> "rofs", err |-> r.err,
                made |-> 0, lstat |-> r.lstat]
    /\ UNCHANGED <<data, fh, layer, dh>>

RoLstat(source, name) ==
    /\ Running
    /\ RoLstatReturns(RoLstatIfPossible(source, data, name))

\* The calls that change which paths the store holds, and the lookups; the
\* handles they return are dropped.
Next ==
    \/ \E name \in Names, now \in FsTimes : Create(name, FALSE, now)
    \/ \E name \in Names, perm \in Perms : Mkdir(name, perm)
    \/ \E path \in Names, perm \in Perms : MkdirAll(path, perm)
    \/ \E name \in Names : Open(name, FALSE)
    \/ \E name \in Names, flag \in FlagWords, perm \in Perms, now \in FsTimes :
          OpenFile(name, flag, perm, FALSE, now)
    \/ \E name \in Names : Remove(name)
    \/ \E path \in Names : RemoveAll(path)
    \/ \E oldname \in Names, newname \in Names : Rename(oldname, newname)
    \/ \E name \in Names : Stat(name)

Spec == Init /\ [][Next]_vars

\* Every call of memmapfs.Fs and of the read-only filter over it, and Write
\* through the handle kept, on the paths of FileNames.
NextRo ==
    \/ \E name \in FileNames, keep \in BOOLEAN, now \in FsTimes :
          Create(name, keep, now)
    \/ \E name \in FileNames, perm \in Perms : Mkdir(name, perm)
    \/ \E path \in FileNames, perm \in Perms : MkdirAll(path, perm)
    \/ \E name \in FileNames, keep \in BOOLEAN : Open(name, keep)
    \/ \E name \in FileNames, flag \in FlagWords, perm \in Perms,
             keep \in BOOLEAN, now \in FsTimes :
          OpenFile(name, flag, perm, keep, now)
    \/ \E name \in FileNames : Remove(name)
    \/ \E path \in FileNames : RemoveAll(path)
    \/ \E oldname \in FileNames, newname \in FileNames : Rename(oldname, newname)
    \/ \E name \in FileNames : Stat(name)
    \/ \E name \in FileNames, mode \in Modes : Chmod(name, mode)
    \/ \E name \in FileNames, mtime \in Times : Chtimes(name, mtime)
    \/ \E b \in Bytes, now \in Times : Write(b, now)
    \/ \E name \in FileNames : RoCreate(name)
    \/ \E name \in FileNames, perm \in Perms : RoMkdir(name, perm)
    \/ \E path \in FileNames, perm \in Perms : RoMkdirAll(path, perm)
    \/ \E name \in FileNames : RoRemove(name)
    \/ \E path \in FileNames : RoRemoveAll(path)
    \/ \E oldname \in FileNames, newname \in FileNames : RoRename(oldname, newname)
    \/ \E name \in FileNames, mode \in Modes : RoChmod(name, mode)
    \/ \E name \in FileNames, mtime \in Times : RoChtimes(name, mtime)
    \/ \E name \in FileNames, flag \in FlagWords, perm \in Perms,
             keep \in BOOLEAN, now \in FsTimes :
          RoOpenFile(name, flag, perm, keep, now)
    \/ \E name \in FileNames, keep \in BOOLEAN : RoOpen(name, keep)
    \/ \E name \in FileNames : RoStat(name)
    \/ \E source \in LstatSources, name \in FileNames : RoLstat(source, name)

SpecRo == Init /\ [][NextRo]_vars

-----------------------------------------------------------------------------
(* Calls through a regexpfs.Fs with pattern re over the memmapfs.Fs, and
   Readdir on the directory handle dh *)

\* the calls made through the filter on one of the stores of SeedStores
MaxReCalls == 2

\* the calls made on directory handles
MaxDirCalls == 3

ReRunning == ~crashed /\ calls < MaxReCalls

DirRunning == ~crashed /\ calls < MaxDirCalls

ReCreate(re, name, now) ==
    /\ ReRunning
    /\ ReturnsErr("Create", "regexpfs", ReCreateResult(<<re>>, data, name, now))

ReMkdir(re, n, p) ==
    /\ ReRunning
    /\ ReturnsErr("Mkdir", "regexpfs", ReMkdirResult(<<re>>, data, n, p))

ReMkdirAll(re, n, p) ==
    /\ ReRunning
    /\ ReturnsErr("MkdirAll", "regexpfs", ReMkdirAllResult(<<re>>, data, n, p))

ReRemove(re, name) ==
    /\ ReRunning
    /\ ReturnsErr("Remove", "regexpfs", ReRemoveResult(<<re>>, data, name))

ReRemoveAll(re, p) ==
    /\ ReRunning
    /\ ReturnsErr("RemoveAll", "regexpfs", ReRemoveAllResult(<<re>>, data, p))

ReRename(re, oldname, newname) ==
    /\ ReRunning
    /\ ReturnsErr("Rename", "regexpfs",
                  ReRenameResult(<<re>>, data, oldname, newname))

ReStat(re, name) ==
    /\ ReRunning
    /\ ReturnsErr("Stat", "regexpfs",
                  [st |-> data, err |-> ReStatResult(<<re>>, data, name).err])

ReChmod(re, name, mode) ==
    /\ ReRunning
    /\ ReturnsErr("Chmod", "regexpfs", ReChmodResult(<<re>>, data, name, mode))

ReChtimes(re, name, mtime) ==
    /\ ReRunning
    /\ ReturnsErr("Chtimes", "regexpfs",
                  ReChtimesResult(<<re>>, data, name, mtime))

ReOpenFile(re, name, flag, perm, now) ==
    /\ ReRunning
    /\ ReturnsErr("OpenFile", "regexpfs",
                  ReOpenFileResult(<<re>>, data, name, flag, perm, now))

\* a call that returns the handle dh on the node under r.key
ReturnsDir(op, via, res, r) ==
    /\ Returns(op, via, r)
    /\ IF r.err = NoErr
       THEN /\ data' = Hold(r.st, r.key)
            /\ dh' = NewDir(via, res)
            /\ fh' = NoHandle
       ELSE /\ data' = r.st
            /\ UNCHANGED <<dh, fh>>
    /\ UNCHANGED layer

\* Open through the filters res; the caller keeps the handle
ReOpen(res, name) ==
    /\ ReRunning
    /\ ReturnsDir("Open", "regexpfs", res, ReOpenResult(res, data, name))

\* Open on the memmapfs.Fs itself; the caller keeps the handle for Readdir
OpenDir(name) ==
    /\ DirRunning
    /\ ReturnsDir("Open", "memmapfs", <<>>, DoOpen(data, name))

\* Readdir(n) (and Readdirnames(n), which returns the names of the same
\* entries) on the handle dh
Readdir(n) ==
    /\ DirRunning
    /\ dh.valid
    /\ dh.via \in {"memmapfs", "regexpfs"}
    /\ LET Done(r) ==
               /\ dh' = r.dh
               /\ crashed' = (r.err = Panic)
               /\ calls' = calls + 1
               /\ UNCHANGED <<cacheTime, threads, mu, scan>>
               /\ last' = [op |-> "Readdir", via |-> dh.via, err |-> r.err,
                           made |-> 0]
       IN Done(DoReaddir(dh, HeldFiles(data), n))
    /\ UNCHANGED <<data, fh, layer>>

InitRe ==
    /\ data \in SeedStores
    /\ fh = NoHandle
    /\ last = [op |-> "New", via |-> "regexpfs", err |-> NoErr, made |-> 0]
    /\ crashed = FALSE
    /\ calls = 0
    /\ layer = getData
    /\ dh = NoDir
    /\ cacheTime = 0
    /\ threads = NoThreads
    /\ mu = Unlocked
    /\ scan = NoScan

NextRe ==
    \/ \E re \in Regexps, name \in ReNames, now \in FsTimes :
          ReCreate(re, name, now)
    \/ \E re \in Regexps, name \in ReNames, perm \in Perms :
          ReMkdir(re, name, perm)
    \/ \E re \in Regexps, name \in ReNames, perm \in Perms :
          ReMkdirAll(re, name, perm)
    \/ \E re \in Regexps, name \in ReNames : ReRemove(re, name)
    \/ \E re \in Regexps, name \in ReNames : ReRemoveAll(re, name)
    \/ \E re \in Regexps, oldname \in ReNames, newname \in ReNames :
          ReRename(re, oldname, newname)
    \/ \E re \in Regexps, name \in ReNames : ReStat(re, name)
    \/ \E re \in Regexps, name \in ReNames, mode \in ReModes :
          ReChmod(re, name, mode)
    \/ \E re \in Regexps, name \in ReNames, mtime \in FsTimes :
          ReChtimes(re, name, mtime)
    \/ \E re \in Regexps, name \in ReNames, flag \in ReFlagWords,
          perm \in Perms, now \in FsTimes :
          ReOpenFile(re, name, flag, perm, now)
    \/ \E res \in Chains, name \in ReDirs : ReOpen(res, name)
    \/ \E name \in ReDirs : OpenDir(name)
    \/ \E n \in Counts : Readdir(n)

SpecRe == InitRe /\ [][NextRe]_vars

-----------------------------------------------------------------------------
(* Calls through the copy-on-write overlay of the base data and the layer,
   CopyToLayer between the two, and Readdir on directory handles *)

\* the calls made on one pair of stores
MaxCowCalls == 2

\* the length a file of the layer can reach
MaxCowData == 2

\* "/a/b", "/a/c", "/a/d", "/f"
CowNames ==
    { <<"/", "a", "/", "b">>, <<"/", "a", "/", "c">>, <<"/", "a", "/", "d">>,
      <<"/", "f">> }

\* the directories opened for Readdir: "/", "/a", "/e"
CowDirs == { Root, <<"/", "a">>, <<"/", "e">> }

CowFlagWords == { {O_RDWR}, {O_CREATE, O_RDWR} }

\* the store st with the file name created at instant 1, holding bytes and
\* given the modification time mtime
WithFile(st, name, bytes, mtime) ==
    LET Made(c) == DoChtimes(CopyBytes(c.st, c.key, bytes, 1), name, mtime).st
    IN Made(DoCreate(st, name, 1))

\* the base stores: an empty one; one with the files /a/b ("xy") and /a/c
\* ("x") and the empty directory /e
CowBases ==
    { getData,
      DoMkdir(WithFile(WithFile(getData, <<"/", "a", "/", "b">>, <<"x", "y">>, 2),
                       <<"/", "a", "/", "c">>, <<"x">>, 2),
              <<"/", "e">>, {"0755"}).st }

\* the layer stores: an empty one; one with the files /a/b ("y") and /a/d
\* and the empty directory /f
CowLayers ==
    { getData,
      DoMkdir(WithFile(WithFile(getData, <<"/", "a", "/", "b">>, <<"y">>, 1),
                       <<"/", "a", "/", "d">>, <<>>, 1),
              <<"/", "f">>, {"0755"}).st }

CowRunning == ~crashed /\ calls < MaxCowCalls

\* the record of the call op, which returns r
CowReturns(op, via, r) ==
    /\ crashed' = (r.err = Panic)
    /\ calls' = calls + 1
    /\ UNCHANGED <<cacheTime, threads, mu, scan>>
    /\ last' = [op |-> op, via |-> via, err |-> r.err,
                made |-> Cardinality(DOMAIN r.layer \ DOMAIN layer)]
    /\ data' = r.base

CowReturnsErr(op, r) ==
    /\ CowReturns(op, "cowfs", r)
    /\ layer' = r.layer
    /\ UNCHANGED <<fh, dh>>

\* a call that returns the handle r.file on the node of the layer under r.key
CowReturnsFile(op, r) ==
    /\ CowReturns(op, "cowfs", r)
    /\ IF r.err = NoErr
       THEN /\ layer' = Hold(r.layer, r.key)
            /\ fh' = [r.file EXCEPT !.via = "cowfs"]
       ELSE /\ layer' = r.layer
            /\ fh' = fh
    /\ UNCHANGED dh

CowCreate(name, now) ==
    /\ CowRunning
    /\ CowReturnsFile("Create", CowCreateResult(data, layer, name, now))

CowOpenFile(name, flag, perm, now) ==
    /\ CowRunning
    /\ CowReturnsFile("OpenFile",
                      CowOpenFileResult(data, layer, name, flag, perm, now))

\* Write of one byte through the handle fh the overlay returned
CowWrite(b, now) ==
    /\ CowRunning
    /\ fh.valid
    /\ fh.via = "cowfs"
    /\ LET Written(r) ==
              /\ \A k \in DOMAIN r.st : Len(r.st[k].data) <= MaxCowData
              /\ CowReturns("Write", "cowfs",
                            [base |-> data, layer |-> r.st, err |-> r.err])
              /\ layer' = r.st
              /\ fh' = r.file
       IN Written(DoWrite(layer, fh, <<b>>, now))
    /\ UNCHANGED dh

CowMkdir(name, perm) ==
    /\ CowRunning
    /\ CowReturnsErr("Mkdir", CowMkdirResult(data, layer, name, perm))

CowMkdirAll(name, perm) ==
    /\ CowRunning
    /\ CowReturnsErr("MkdirAll", CowMkdirAllResult(data, layer, name, perm))

CowRemove(name) ==
    /\ CowRunning
    /\ CowReturnsErr("Remove", CowRemoveResult(data, layer, name))

CowRemoveAll(name) ==
    /\ CowRunning
    /\ CowReturnsErr("RemoveAll", CowRemoveAllResult(data, layer, name))

CowRename(oldname, newname) ==
    /\ CowRunning
    /\ CowReturnsErr("Rename", CowRenameResult(data, layer, oldname, newname))

CowChmod(name, mode, now) ==
    /\ CowRunning
    /\ CowReturnsErr("Chmod", CowChmodResult(data, layer, name, mode, now))

CowChtimes(name, mtime, now) ==
    /\ CowRunning
    /\ CowReturnsErr("Chtimes", CowChtimesResult(data, layer, name, mtime, now))

\* Open through the overlay; the caller keeps the handle for Readdir
CowOpen(name) ==
    /\ CowRunning
    /\ LET Opened(r) ==
              /\ CowReturns("Open", "cowfs", r)
              /\ layer' = r.layer
              /\ dh' = IF r.err = NoErr THEN CowDir(r.key) ELSE dh
       IN Opened(CowOpenResult(data, layer, name))
    /\ UNCHANGED fh

\* Readdir(n) (and Readdirnames(n)) on the merged handle dh
CowReaddir(n) ==
    /\ DirRunning
    /\ dh.valid
    /\ dh.via = "cowfs"
    /\ LET Done(r) ==
               /\ dh' = r.dh
               /\ crashed' = (r.err = Panic)
               /\ calls' = calls + 1
               /\ UNCHANGED <<cacheTime, threads, mu, scan>>
               /\ last' = [op |-> "Readdir", via |-> "cowfs", err |-> r.err,
                           made |-> 0]
       IN Done(DoReaddir(dh, MergedFiles(data, layer, dh.key), n))
    /\ UNCHANGED <<data, fh, layer>>

\* copyutil.CopyToLayer(base, layer, name), the step fault failing
Promote(name, fault, now) ==
    /\ CowRunning
    /\ CowReturns("CopyToLayer", "copyutil",
                  CopyToLayer(data, layer, name, fault, now))
    /\ layer' = CopyToLayer(data, layer, name, fault, now).layer
    /\ UNCHANGED <<fh, dh>>

InitCow ==
    /\ data \in CowBases
    /\ layer \in CowLayers
    /\ fh = NoHandle
    /\ last = [op |-> "New", via |-> "cowfs", err |-> NoErr, made |-> 0]
    /\ crashed = FALSE
    /\ calls = 0
    /\ dh = NoDir
    /\ cacheTime = 0
    /\ threads = NoThreads
    /\ mu = Unlocked
    /\ scan = NoScan

NextCow ==
    \/ \E name \in CowNames, now \in FsTimes : CowCreate(name, now)
    \/ \E name \in CowNames, flag \in CowFlagWords, perm \in Perms,
          now \in FsTimes :
          CowOpenFile(name, flag, perm, now)
    \/ \E b \in Bytes, now \in FsTimes : CowWrite(b, now)
    \/ \E name \in CowNames, perm \in Perms : CowMkdir(name, perm)
    \/ \E name \in CowNames, perm \in Perms : CowMkdirAll(name, perm)
    \/ \E name \in CowNames : CowRemove(name)
    \/ \E name \in CowNames : CowRemoveAll(name)
    \/ \E oldname \in CowNames, newname \in CowNames :
          CowRename(oldname, newname)
    \/ \E name \in CowNames, mode \in ReModes, now \in FsTimes :
          CowChmod(name, mode, now)
    \/ \E name \in CowNames, mtime \in FsTimes, now \in FsTimes :
          CowChtimes(name, mtime, now)
    \/ \E name \in CowDirs : CowOpen(name)
    \/ \E n \in Counts : CowReaddir(n)
    \/ \E name \in CowNames, fault \in Faults, now \in FsTimes :
          Promote(name, fault, now)
    \/ \E name \in CowDirs : OpenDir(name)
    \/ \E n \in Counts : Readdir(n)

SpecCow == InitCow /\ [][NextCow]_vars

-----------------------------------------------------------------------------
(* Calls through the cache-on-read overlay NewCacheOnReadFs(base, layer,
   cacheTime): base is data, and Create made directly on the base *)

MaxCacheCalls == 3

CacheNames == { <<"/", "a", "/", "b">>, <<"/", "a", "/", "c">> }

\* the cache durations: none (the copy never expires), and one unit
CacheTimes == {0, 1}

\* the counts of bytes read back after Seek(0)
ReadCounts == {1}

\* the state after base.Mkdir("/a"), Create("/a/b") through the overlay and
\* Write("xy") through the handle
CacheWritten ==
    LET Written(c) ==
            [c EXCEPT !.base = CacheWriteResult(c.base, c.layer, c.file,
                                                <<"x", "y">>, 1).base,
                      !.layer = CacheWriteResult(c.base, c.layer, c.file,
                                                 <<"x", "y">>, 1).layer,
                      !.file = CacheWriteResult(c.base, c.layer, c.file,
                                                <<"x", "y">>, 1).file]
    IN Written(CacheCreateResult(DoMkdir(getData, <<"/", "a">>, {"0777"}).st,
                                 getData, <<"/", "a", "/", "b">>, 1))

\* the states a run through the overlay starts from: base with the
\* directory /a and an empty layer; base with the file /a/b ("xy") and an
\* empty layer; base with /a/b ("xy") newer than the copy ("y") the layer
\* has; and the state CacheWritten, with its handle
CacheSeeds ==
    { [base |-> DoMkdir(getData, <<"/", "a">>, {"0777"}).st, layer |-> getData,
       file |-> NoHandle],
      [base |-> WithFile(getData, <<"/", "a", "/", "b">>, <<"x", "y">>, 1),
       layer |-> getData, file |-> NoHandle],
      [base |-> WithFile(getData, <<"/", "a", "/", "b">>, <<"x", "y">>, 2),
       layer |-> WithFile(getData, <<"/", "a", "/", "b">>, <<"y">>, 1),
       file |-> NoHandle],
      [base |-> CacheWritten.base, layer |-> CacheWritten.layer,
       file |-> [CacheWritten.file EXCEPT !.via = "cacheonreadfs"]] }

CacheRunning == ~crashed /\ calls < MaxCacheCalls

\* the record of the call op through the overlay, which returns r
CacheReturns(op, via, r) ==
    /\ crashed' = (r.err = Panic)
    /\ calls' = calls + 1
    /\ last' = [op |-> op, via |-> via, err |-> r.err,
                made |-> Cardinality(DOMAIN r.layer \ DOMAIN layer)]
    /\ UNCHANGED <<dh, cacheTime, threads, mu, scan>>

\* a call that returns a handle: the handle the caller had is dropped
CacheReturnsFile(op, r) ==
    /\ CacheReturns(op, "cacheonreadfs", r)
    /\ IF r.err = NoErr
       THEN /\ fh' = [r.file EXCEPT !.via = "cacheonreadfs"]
            /\ data' = r.base
            /\ layer' = r.layer
       ELSE /\ fh' = fh
            /\ data' = r.base
            /\ layer' = r.layer

CacheCreate(name, now) ==
    /\ CacheRunning
    /\ CacheReturnsFile("Create", CacheCreateResult(data, layer, name, now))

\* Open through the overlay; the handle is on the node of the layer alone
CacheOpen(name, now) ==
    /\ CacheRunning
    /\ LET Opened(r) ==
              CacheReturnsFile("Open",
                  IF r.err = NoErr
                  THEN [r EXCEPT !.base = Plain(r.base),
                                 !.layer = Hold(r.layer, r.key)]
                  ELSE r)
       IN Opened(CacheOpenResult(data, layer, name, cacheTime, now))

CacheWrite(b, now) ==
    /\ CacheRunning
    /\ fh.valid
    /\ LET Written(r) ==
              /\ \A k \in DOMAIN r.layer : Len(r.layer[k].data) <= MaxCowData
              /\ CacheReturns("Write", "cacheonreadfs", r)
              /\ data' = r.base
              /\ layer' = r.layer
              /\ fh' = r.file
       IN Written(CacheWriteResult(data, layer, fh, <<b>>, now))

\* Seek(0, SEEK_SET) and Read of n bytes through the handle
CacheRead(n) ==
    /\ CacheRunning
    /\ fh.valid
    /\ CacheReturns("Read", "cacheonreadfs",
                    [base |-> data, layer |-> layer, err |-> NoErr])
    /\ fh' = CacheReadResult(layer, fh, n)
    /\ UNCHANGED <<data, layer>>

CacheClose ==
    /\ CacheRunning
    /\ fh.valid
    /\ CacheReturns("Close", "cacheonreadfs",
                    [base |-> data, layer |-> layer, err |-> NoErr])
    /\ fh' = CacheCloseResult(fh)
    /\ UNCHANGED <<data, layer>>

\* Create made directly on the base filesystem; its handle is dropped
BaseCreate(name, now) ==
    /\ CacheRunning
    /\ CacheReturns("Create", "memmapfs",
                    [base |-> data, layer |-> layer,
                     err |-> DoCreate(data, name, now).err])
    /\ data' = DoCreate(data, name, now).st
    /\ UNCHANGED <<fh, layer>>

InitCache ==
    /\ \E seed \in CacheSeeds :
          /\ data = seed.base
          /\ layer = seed.layer
          /\ fh = seed.file
    /\ cacheTime \in CacheTimes
    /\ last = [op |-> "New", via |-> "cacheonreadfs", err |-> NoErr, made |-> 0]
    /\ crashed = FALSE
    /\ calls = 0
    /\ dh = NoDir
    /\ threads = NoThreads
    /\ mu = Unlocked
    /\ scan = NoScan

NextCache ==
    \/ \E name \in CacheNames, now \in Times : CacheCreate(name, now)
    \/ \E name \in CacheNames, now \in Times : CacheOpen(name, now)
    \/ \E b \in Bytes, now \in Times : CacheWrite(b, now)
    \/ \E n \in ReadCounts : CacheRead(n)
    \/ CacheClose
    \/ \E name \in CacheNames, now \in Times : BaseCreate(name, now)

SpecCache == InitCache /\ [][NextCache]_vars

-----------------------------------------------------------------------------
(* Goroutines calling one memmapfs.Fs concurrently. A step is what a
   goroutine does between two operations on Fs.mu: taking the lock, or the
   statements up to and including the next release. threads[t].pc is the
   step t takes next; threads[t].then the step that follows the lock it is
   taking; threads[t].f the node a lookup returned (live = FALSE once
   another goroutine has taken that node out of the map). *)

MaxMtCalls == 2

Threads == {1, 2}

MtNames == { <<"/", "a">>, <<"/", "a", "/", "b">>, <<"/", "b">> }

MtOps ==
    { "Create", "Mkdir", "MkdirAll", "OpenFile", "Remove", "RemoveAll",
      "Rename", "Stat", "Chmod", "Chtimes" }

\* the stores the goroutines start on: a new one; one with the file /b
\* ("x"); one with the directory /a and the file /a/b ("x")
MtStores ==
    { getData,
      WithFile(getData, <<"/", "b">>, <<"x">>, 1),
      WithFile(DoMkdir(getData, <<"/", "a">>, {"0755"}).st,
               <<"/", "a", "/", "b">>, <<"x">>, 1) }

NoNode == [key |-> <<>>, live |-> FALSE]

Idle ==
    [op |-> "none", name |-> <<>>, newname |-> <<>>, pc |-> "idle",
     then |-> "none", err |-> NoErr, f |-> NoNode, iter |-> FALSE,
     start |-> {}, seen |-> {}, cur |-> <<>>]

\* t goes on to take Fs.mu (how = "rlock" or "lock") and then to step body
Goto(th, how, body) == [th EXCEPT !.pc = how, !.then = body]

\* the call of t returns err
Done(th, err) == [th EXCEPT !.pc = "done", !.then = "none", !.err = err]

\* the call of t panics
Panics(th) == [th EXCEPT !.pc = "panic", !.then = "none", !.err = Panic]

\* m.mu.RUnlock() / m.mu.Unlock() by t
RUnlock(m, t) == [m EXCEPT !.r = @ \ {t}]
Unlock(m, t) == [m EXCEPT !.w = 0]

\* the nodes the other goroutines point at, after t took the nodes under
\* the keys gone out of the map and moved the node under from to the key to
Repointed(ths, t, gone, from, to) ==
    [u \in Threads |->
        IF u = t \/ ~ths[u].f.live THEN ths[u]
        ELSE IF ths[u].f.key = from THEN [ths[u] EXCEPT !.f.key = to]
        ELSE IF ths[u].f.key \in gone THEN [ths[u] EXCEPT !.f.live = FALSE]
        ELSE ths[u]]

\* the step of t that leaves the store st, the lock m and t at th
MtStep(t, st, m, th, ths) ==
    \E me \in {th} :
        /\ data' = st
        /\ mu' = m
        /\ threads' = [ths EXCEPT ![t] = me]
        /\ crashed' = (me.pc = "panic")
        /\ last' = IF me.pc \in {"done", "panic"}
                   THEN [op |-> me.op, via |-> "memmapfs", err |-> me.err,
                         made |-> 0]
                   ELSE last
        /\ UNCHANGED <<fh, calls, layer, dh, cacheTime, scan>>

\* the first step of each call
Entry(op, name, newname) ==
    IF op = "Create" THEN Goto(Idle, "lock", "create")
    ELSE IF op \in {"Mkdir", "MkdirAll"} THEN Goto(Idle, "rlock", "mkdir.check")
    ELSE IF op \in {"OpenFile", "Stat"} THEN Goto(Idle, "rlock", "open")
    ELSE IF op = "Remove" THEN Goto(Idle, "lock", "remove")
    ELSE IF op = "RemoveAll" THEN Goto(Idle, "lock", "ra.unregister")
    ELSE IF op = "Rename"
    THEN IF normalizePath(name) = normalizePath(newname)
         THEN Done(Idle, NoErr)
         ELSE Goto(Idle, "rlock", "rn.check")
    ELSE Goto(Idle, "rlock", "lookup")

\* goroutine t calls op(name) (Rename(name, newname)); OpenFile is called
\* with O_RDWR|O_CREATE
Call(t, op, name, newname) ==
    /\ ~crashed
    /\ calls < MaxMtCalls
    /\ threads[t].pc \in {"idle", "done"}
    /\ calls' = calls + 1
    /\ threads' = [threads EXCEPT ![t] =
                      [Entry(op, name, newname) EXCEPT
                           !.op = op, !.name = normalizePath(name),
                           !.newname = IF op = "Rename"
                                       THEN normalizePath(newname) ELSE <<>>]]
    /\ last' = IF threads'[t].pc = "done"
               THEN [op |-> op, via |-> "memmapfs", err |-> NoErr, made |-> 0]
               ELSE last
    /\ UNCHANGED <<data, fh, crashed, layer, dh, cacheTime, mu, scan>>

\* m.mu.RLock(): granted while no writer holds or awaits the lock
RLock(t) ==
    /\ ~crashed
    /\ threads[t].pc = "rlock"
    /\ mu.w = 0
    /\ mu.wait = {}
    /\ MtStep(t, data, [mu EXCEPT !.r = @ \cup {t}],
              [threads[t] EXCEPT !.pc = threads[t].then], threads)

\* m.mu.Lock(), first half: the writer announces itself, which keeps new
\* readers out
LockWait(t) ==
    /\ ~crashed
    /\ threads[t].pc = "lock"
    /\ MtStep(t, data, [mu EXCEPT !.wait = @ \cup {t}],
              [threads[t] EXCEPT !.pc = "locking"], threads)

\* m.mu.Lock(), second half: granted once no reader and no writer holds it
LockTake(t) ==
    /\ ~crashed
    /\ threads[t].pc = "locking"
    /\ mu.w = 0
    /\ mu.r = {}
    /\ MtStep(t, data, [mu EXCEPT !.w = t, !.wait = @ \ {t}],
              [threads[t] EXCEPT !.pc = threads[t].then], threads)

\* Create under the write lock; OpenFile goes on to m.Chmod(name, perm)
CreateBody(t) ==
    /\ ~crashed
    /\ threads[t].pc = "create"
    /\ mu.w = t
    /\ MtStep(t, DoCreate(data, threads[t].name, 1).st, Unlock(mu, t),
              IF threads[t].op = "Create"
              THEN Done(threads[t], NoErr)
              ELSE Goto(threads[t], "rlock", "lookup"),
              Repointed(threads, t, {threads[t].name}, <<>>, <<>>))

\* Mkdir: the lookup under the read lock
MkdirCheck(t) ==
    /\ ~crashed
    /\ threads[t].pc = "mkdir.check"
    /\ t \in mu.r
    /\ MtStep(t, data, RUnlock(mu, t),
              IF threads[t].name \in DOMAIN data
              THEN Done(threads[t],
                        IF threads[t].op = "MkdirAll" THEN NoErr ELSE ErrExist)
              ELSE Goto(threads[t], "lock", "mkdir.insert"),
              threads)

\* Mkdir: the insertion under the write lock; m.Chmod(name, perm|ModeDir)
\* follows
MkdirInsert(t) ==
    /\ ~crashed
    /\ threads[t].pc = "mkdir.insert"
    /\ mu.w = t
    /\ MtStep(t,
              registerWithParent(
                  Put(data, threads[t].name, CreateDir(threads[t].name)),
                  threads[t].name),
              Unlock(mu, t),
              Goto(threads[t], "rlock", "lookup"),
              Repointed(threads, t, {threads[t].name}, <<>>, <<>>))

\* Chmod and Chtimes: the lookup under the read lock. Mkdir and OpenFile
\* drop the error of their Chmod.
Lookup(t) ==
    /\ ~crashed
    /\ threads[t].pc = "lookup"
    /\ t \in mu.r
    /\ MtStep(t, data, RUnlock(mu, t),
              IF threads[t].name \in DOMAIN data
              THEN Goto([threads[t] EXCEPT
                             !.f = [key |-> threads[t].name, live |-> TRUE]],
                        "lock", "set")
              ELSE Done(threads[t],
                        IF threads[t].op \in {"Chmod", "Chtimes"}
                        THEN ErrNotExist ELSE NoErr),
              threads)

\* the node of the map after SetMode or SetModTime by the call op
SetBy(op, f) ==
    IF op = "Chtimes" THEN SetModTime(f, 2)
    ELSE IF op = "Mkdir" \/ op = "MkdirAll" THEN SetMode(f, {"0644", ModeDir})
    ELSE SetMode(f, {"0644"})

\* Chmod and Chtimes: SetMode or SetModTime on the node found, under the
\* write lock
Set(t) ==
    /\ ~crashed
    /\ threads[t].pc = "set"
    /\ mu.w = t
    /\ MtStep(t,
              IF threads[t].f.live
              THEN [data EXCEPT ![threads[t].f.key] = SetBy(threads[t].op, @)]
              ELSE data,
              Unlock(mu, t),
              Done([threads[t] EXCEPT !.f = NoNode], NoErr),
              threads)

\* Fs.open under the read lock, for Stat and for the openWrite of OpenFile
OpenLookup(t) ==
    /\ ~crashed
    /\ threads[t].pc = "open"
    /\ t \in mu.r
    /\ MtStep(t, data, RUnlock(mu, t),
              IF threads[t].name \in DOMAIN data
              THEN Done(threads[t], NoErr)
              ELSE IF threads[t].op = "OpenFile"
              THEN Goto(threads[t], "lock", "create")
              ELSE Done(threads[t], ErrNotExist),
              threads)

\* Remove: the whole call under the write lock, released by defer
RemoveBody(t) ==
    /\ ~crashed
    /\ threads[t].pc = "remove"
    /\ mu.w = t
    /\ LET Removed(r) ==
              MtStep(t, IF r.err = Panic THEN data ELSE r.st, Unlock(mu, t),
                     IF r.err = Panic THEN Panics(threads[t])
                     ELSE Done(threads[t], r.err),
                     Repointed(threads, t,
                               IF r.err = NoErr THEN {threads[t].name} ELSE {},
                               <<>>, <<>>))
       IN \E r \in { DoRemove(data, threads[t].name) } : Removed(r)

\* RemoveAll: unRegisterWithParent(path) under the write lock
RemoveAllUnregister(t) ==
    /\ ~crashed
    /\ threads[t].pc = "ra.unregister"
    /\ mu.w = t
    /\ LET Unregistered(r) ==
              IF r.err = Panic
              THEN MtStep(t, data, mu, Panics(threads[t]), threads)
              ELSE MtStep(t, r.st, Unlock(mu, t),
                          Goto(threads[t], "rlock", "ra.scan"), threads)
       IN \E r \in { unRegisterWithParent(data, threads[t].name) } :
             Unregistered(r)

\* the keys the range over the map has yet to produce and RemoveAll deletes
Pending(th, keys) ==
    { k \in keys \ th.seen : HasPrefix(k, th.name) }

\* RemoveAll: the range over the map under the read lock, up to the next
\* key with the prefix path. A key put into the map after the range began
\* may be produced or skipped.
RemoveAllScan(t, p) ==
    /\ ~crashed
    /\ threads[t].pc = "ra.scan"
    /\ t \in mu.r
    /\ LET Began(th) ==
              IF p \in Pending(th, DOMAIN data)
              THEN MtStep(t, data, RUnlock(mu, t),
                          Goto([th EXCEPT !.seen = @ \cup {p}, !.cur = p],
                               "lock", "ra.delete"),
                          threads)
              ELSE /\ Pending(th, DOMAIN data \cap th.start) = {}
                   /\ MtStep(t, data, RUnlock(mu, t),
                             Done([th EXCEPT !.iter = FALSE, !.start = {},
                                             !.seen = {}, !.cur = <<>>], NoErr),
                             threads)
       IN Began(IF threads[t].iter THEN threads[t]
                ELSE [threads[t] EXCEPT !.iter = TRUE, !.start = DOMAIN data])

\* RemoveAll: delete(m.getData(), p) under the write lock
RemoveAllDelete(t) ==
    /\ ~crashed
    /\ threads[t].pc = "ra.delete"
    /\ mu.w = t
    /\ MtStep(t,
              IF threads[t].cur \in DOMAIN data
              THEN Del(data, threads[t].cur) ELSE data,
              Unlock(mu, t),
              Goto(threads[t], "rlock", "ra.scan"),
              Repointed(threads, t, {threads[t].cur}, <<>>, <<>>))

\* Rename: the lookup of oldname under the read lock
RenameCheck(t) ==
    /\ ~crashed
    /\ threads[t].pc = "rn.check"
    /\ t \in mu.r
    /\ MtStep(t, data, RUnlock(mu, t),
              IF threads[t].name \in DOMAIN data
              THEN Goto(threads[t], "lock", "rn.body")
              ELSE Done(threads[t], ErrNotExist),
              threads)

\* Rename: the move under the write lock. With oldname gone from the map,
\* fileData is nil and ChangeFileName(nil, newname) panics, the write lock
\* held.
RenameBody(t) ==
    /\ ~crashed
    /\ threads[t].pc = "rn.body"
    /\ mu.w = t
    /\ LET Moved(r) ==
              IF r.err # NoErr
              THEN MtStep(t, data, mu, Panics(threads[t]), threads)
              ELSE MtStep(t, r.st, Unlock(mu, t),
                          Goto(threads[t], "rlock", "rn.return"),
                          Repointed(Repointed(threads, t, {threads[t].newname},
                                              <<>>, <<>>),
                                    t, {}, threads[t].name, threads[t].newname))
       IN \E r \in { DoRename(data, threads[t].name, threads[t].newname) } :
             Moved(r)

\* Rename: the read lock taken again after the move is released by defer
RenameReturn(t) ==
    /\ ~crashed
    /\ threads[t].pc = "rn.return"
    /\ t \in mu.r
    /\ MtStep(t, data, RUnlock(mu, t), Done(threads[t], NoErr), threads)

InitMT ==
    /\ data \in MtStores
    /\ fh = NoHandle
    /\ last = [op |-> "New", via |-> "memmapfs", err |-> NoErr, made |-> 0]
    /\ crashed = FALSE
    /\ calls = 0
    /\ layer = getData
    /\ dh = NoDir
    /\ cacheTime = 0
    /\ threads = [t \in Threads |-> Idle]
    /\ mu = Unlocked
    /\ scan = NoScan

\* the steps of goroutine t inside a call
Steps(t) ==
    \/ RLock(t)
    \/ LockWait(t)
    \/ LockTake(t)
    \/ CreateBody(t)
    \/ MkdirCheck(t)
    \/ MkdirInsert(t)
    \/ Lookup(t)
    \/ Set(t)
    \/ OpenLookup(t)
    \/ RemoveBody(t)
    \/ RemoveAllUnregister(t)
    \/ \E p \in MtNames \cup {Root} : RemoveAllScan(t, p)
    \/ RemoveAllDelete(t)
    \/ RenameCheck(t)
    \/ RenameBody(t)
    \/ RenameReturn(t)

NextMT ==
    \/ \E t \in Threads, op \in MtOps, name \in MtNames, newname \in MtNames :
          Call(t, op, name, newname)
    \/ \E t \in Threads : Steps(t)

SpecMT == InitMT /\ [][NextMT]_vars

\* the scheduler lets every goroutine that can take a step take one
SpecMTFair == SpecMT /\ \A t \in Threads : WF_vars(Steps(t))

-----------------------------------------------------------------------------
(* fsutil.FileContainsBytes and FileContainsAnyBytes on a memmapfs.Fs that
   holds one file. scan is the call in progress: the bytes of the file the
   reader has yet to serve (content from offset at on), the subslices
   looked for, the buffer buff and the pass i of the loop of
   ReaderContainsAny; pc = "done" once the call has returned found, err. *)

\* longest content of the file scanned, in bytes
MaxContent == 9

\* io.ErrUnexpectedEOF
ErrUnexpectedEOF == "ErrUnexpectedEOF"

\* the byte make([]byte, n) fills the buffer with
ZeroByte == "0"

\* bytes.Contains(b, subslice)
BytesContain(b, subslice) ==
    \E k \in 0..(Len(b) - Len(subslice)) :
        SubSeq(b, k + 1, k + Len(subslice)) = subslice

\* io.ReadAtLeast(r, buf, min) with len(buf) = min, r serving content from
\* offset at on: the bytes read and the error
ReadAtLeast(content, at, min) ==
    LET Read(n) ==
            [n |-> n, bytes |-> SubSeq(content, at + 1, at + n),
             err |-> IF n = min THEN NoErr
                     ELSE IF n = 0 THEN EOF
                     ELSE ErrUnexpectedEOF]
    IN Read(IF Len(content) - at < min THEN Len(content) - at ELSE min)

\* the length of the longest of subslices, 0 when there is none
largestSlice(subslices) ==
    IF subslices = {} THEN 0
    ELSE CHOOSE n \in { Len(sl) : sl \in subslices } :
            \A sl \in subslices : Len(sl) <= n

\* the call has returned found, err
Scanned(s, found, err) ==
    [s EXCEPT !.pc = "done", !.found = found, !.err = err]

\* ReaderContainsAny(r, subslices...) up to the loop, r serving content
ReaderContainsAny(content, subslices) ==
    IF largestSlice(subslices) = 0
    THEN Scanned([NoScan EXCEPT !.subslices = subslices], FALSE, NoErr)
    ELSE [NoScan EXCEPT
              !.pc = "loop", !.content = content, !.subslices = subslices,
              !.buff = [k \in 1..(largestSlice(subslices) * 4) |-> ZeroByte]]

\* buff after copy(buff[:], buff[halflen:]): the second half is copied over
\* the first and stays where it is
ShiftLeft(buff, halflen) ==
    SubSeq(buff, halflen + 1, Len(buff)) \o SubSeq(buff, halflen + 1, Len(buff))

\* buff with bytes stored from index from + 1 on
ReadInto(buff, from, bytes) ==
    [k \in 1..Len(buff) |->
        IF k > from /\ k <= from + Len(bytes) THEN bytes[k - from] ELSE buff[k]]

\* one pass of the loop of ReaderContainsAny: the read into one half of the
\* buffer, the search of the whole buffer, and the return or the next pass
ScanWhole(s, halflen, rd) ==
    LET Checked(buff) ==
            IF rd.n > 0 /\ \E sl \in s.subslices : BytesContain(buff, sl)
            THEN Scanned(s, TRUE, NoErr)
            ELSE IF rd.err # NoErr
            THEN Scanned(s, FALSE, NoErr)
            ELSE [s EXCEPT !.i = s.i + 1, !.at = s.at + rd.n, !.buff = buff]
    IN IF s.i = 0
       THEN Checked(ReadInto(s.buff, 0, rd.bytes))
       ELSE Checked(ReadInto(IF s.i = 1 THEN s.buff
                             ELSE ShiftLeft(s.buff, halflen),
                             halflen, rd.bytes))

ScanLoop(s) ==
    \* bufflen := largestSlice * 4; halflen := bufflen / 2
    ScanWhole(s, Len(s.buff) \div 2,
              ReadAtLeast(s.content, s.at, Len(s.buff) \div 2))

\* fs.Open(filename), then ReaderContainsAny on the handle returned
StartScan(st, filename, subslices) ==
    LET Opened(f) ==
            IF f.err # NoErr
            THEN Scanned(NoScan, FALSE, f.err)
            ELSE ReaderContainsAny(st[f.key].data, subslices)
    IN Opened(DoOpen(st, filename))

\* the names of the calls: the file "/a", and "/b", which does not exist
ScanNames == { <<"/", "a">>, <<"/", "b">> }

\* the contents of the file "/a"
FileContents == UNION { [1..n -> Bytes] : n \in 0..MaxContent }

\* the subslices looked for: one or two bytes
Subslices == UNION { [1..n -> Bytes] : n \in 1..2 }

SubsliceSets ==
    { {}, {<<"y">>, <<"x", "y">>}, {<<"x", "x">>, <<"y", "x">>} }

FileContainsBytes(filename, subslice) ==
    /\ scan.pc = "idle"
    /\ scan' = StartScan(data, filename, {subslice})
    /\ UNCHANGED <<data, fh, last, crashed, calls, layer, dh, cacheTime,
                   threads, mu>>

FileContainsAnyBytes(filename, subslices) ==
    /\ scan.pc = "idle"
    /\ scan' = StartScan(data, filename, subslices)
    /\ UNCHANGED <<data, fh, last, crashed, calls, layer, dh, cacheTime,
                   threads, mu>>

\* one pass of the loop
ScanPass ==
    /\ scan.pc = "loop"
    /\ scan' = ScanLoop(scan)
    /\ UNCHANGED <<data, fh, last, crashed, calls, layer, dh, cacheTime,
                   threads, mu>>

InitScan ==
    /\ \E content \in FileContents :
          data = WithFile(getData, <<"/", "a">>, content, 1)
    /\ fh = NoHandle
    /\ last = [op |-> "New", via |-> "memmapfs", err |-> NoErr, made |-> 0]
    /\ crashed = FALSE
    /\ calls = 0
    /\ layer = getData
    /\ dh = NoDir
    /\ cacheTime = 0
    /\ threads = NoThreads
    /\ mu = Unlocked
    /\ scan = NoScan

NextScan ==
    \/ \E filename \in ScanNames, subslice \in Subslices :
          FileContainsBytes(filename, subslice)
    \/ \E filename \in ScanNames, subslices \in SubsliceSets :
          FileContainsAnyBytes(filename, subslices)
    \/ ScanPass

SpecScan == InitScan /\ [][NextScan]_vars

-----------------------------------------------------------------------------
(* Properties *)

\* the directory a path lies in
ParentPath(p) == normalizePath(Dir(p))

\* k is path, or lies below the directory path
InSubtree(k, path) ==
    \/ k = path
    \/ HasPrefix(k, IF path = Root THEN Root ELSE path \o <<FilePathSeparator>>)

\* a node without its child-set
NoChildren(f) == [f EXCEPT !.memDir = {}, !.held = FALSE]

\* C1: every node of the store other than the root has its parent path in the
\* store, that parent is a directory, and the parent's child-set holds the node.
C1_ParentOfEveryNode ==
    \A k \in DOMAIN data \ {Root} :
        /\ ParentPath(k) \in DOMAIN data
        /\ IsDir(data[ParentPath(k)])
        /\ k \in data[ParentPath(k)].memDir

\* C2: the store and the child-sets agree: every entry of a directory's
\* child-set is a key of the store, and every key of the store other than the
\* root is an entry of the child-set of the node stored under its parent path.
C2_StoreAgreesWithChildSets ==
    /\ \A p \in DOMAIN data : \A c \in data[p].memDir : c \in DOMAIN data
    /\ \A k \in DOMAIN data \ {Root} :
          /\ ParentPath(k) \in DOMAIN data
          /\ k \in data[ParentPath(k)].memDir

\* C3: RemoveAll(path) deletes exactly path and the entries below it
\* (path + separator + ...); every other entry stays as it was, and when path
\* is absent the store is unchanged.
C3_RemoveAllDeletesExactlySubtree ==
    [][\A path \in Names :
          (last'.op = "RemoveAll" /\ RemoveAll(path)) =>
              /\ DOMAIN data' =
                    {k \in DOMAIN data : ~InSubtree(k, normalizePath(path))}
              /\ \A k \in DOMAIN data' : NoChildren(data'[k]) = NoChildren(data[k])
              /\ normalizePath(path) \notin DOMAIN data => data' = data]_vars

\* C4: the root directory is in the store, as a directory, in every state.
C4_RootAlwaysExists ==
    /\ Root \in DOMAIN data
    /\ IsDir(data[Root])

\* C5: Remove(p) of a path in the store returns success, and Stat(p) and
\* Open(p) then fail with NotExist; Remove(p) of an absent path returns NotExist
\* and leaves the store unchanged; no Remove ends in a panic.
C5_RemoveReturns ==
    [][\A name \in Names :
          (last'.op = "Remove" /\ Remove(name)) =>
              IF normalizePath(name) \in DOMAIN data
              THEN /\ last'.err = NoErr
                   /\ DoStat(data', name).err = ErrNotExist
                   /\ DoOpen(data', name).err = ErrNotExist
              ELSE /\ last'.err = ErrNotExist
                   /\ data' = data]_vars

\* C6 as stated: Rename(old, new) with old absent returns NotExist and leaves
\* the store unchanged, for every new.
C6_RenameAbsentIsNotExist ==
    [][\A oldname \in Names, newname \in Names :
          (/\ last'.op = "Rename"
           /\ normalizePath(oldname) \notin DOMAIN data
           /\ Rename(oldname, newname)) =>
              /\ last'.err = ErrNotExist
              /\ data' = data]_vars

\* C6 amended: in every reachable state, Rename(old, new) with old absent
\* leaves the store unchanged; it returns NotExist when old and new normalize
\* to different paths, and success when they normalize to the same path.
C6_RenameAbsentOld ==
    \A oldname \in Names, newname \in Names :
        normalizePath(oldname) \notin DOMAIN data =>
            LET r == DoRename(data, oldname, newname)
            IN /\ r.st = data
               /\ r.err = IF normalizePath(oldname) = normalizePath(newname)
                          THEN NoErr
                          ELSE ErrNotExist

\* a Rename of an absent path to another path has returned NotExist
C6_Witness ==
    /\ last.op = "Rename"
    /\ last.via = "memmapfs"
    /\ last.err = ErrNotExist

\* C7 as stated: Create(path) with the parent directory of path absent fails
\* with NotExist and adds no node.
C7_CreateWithoutParentFails ==
    [][\A name \in Names :
          (/\ last'.op = "Create"
           /\ ParentPath(normalizePath(name)) \notin DOMAIN data
           /\ \E now \in FsTimes : Create(name, FALSE, now)) =>
              /\ last'.err = ErrNotExist
              /\ data' = data]_vars

\* C7 amended: in every reachable state, Create(path) with the parent
\* directory of path absent succeeds: it adds the node at path and creates the
\* missing parent as a directory node whose child-set holds path.
C7_CreateMakesParent ==
    \A name \in Names, now \in FsTimes :
        LET n == normalizePath(name)
            r == DoCreate(data, name, now)
        IN ParentPath(n) \notin DOMAIN data =>
              /\ r.err = NoErr
              /\ n \in DOMAIN r.st
              /\ ParentPath(n) \in DOMAIN r.st
              /\ IsDir(r.st[ParentPath(n)])
              /\ n \in r.st[ParentPath(n)].memDir

\* a Create has succeeded and added its missing parent directory too
C7_Witness ==
    /\ last.op = "Create"
    /\ last.via = "memmapfs"
    /\ last.err = NoErr
    /\ last.made >= 2

\* the content of every node of the store
Contents(st) == [k \in DOMAIN st |-> st[k].data]

\* C8: OpenFile with neither write-only nor read-write in the flag word
\* returns a handle on which Write fails and changes no node's content,
\* whichever of create, append, truncate and exclusive the word holds.
C8_ReadOnlyModeRejectsWrite ==
    [][\A name \in FileNames, flag \in FlagWords, perm \in Perms, now \in Times :
          (/\ flag \cap {O_WRONLY, O_RDWR} = {}
           /\ last'.op = "OpenFile"
           /\ last'.via = "memmapfs"
           /\ last'.err = NoErr
           /\ OpenFile(name, flag, perm, TRUE, now)) =>
              \A b \in Bytes, t \in Times :
                  LET w == DoWrite(data', fh', <<b>>, t)
                  IN /\ w.err = ErrReadOnly
                     /\ Contents(w.st) = Contents(data')]_vars

\* C9: OpenFile with create and exclusive both set fails with Exist and
\* leaves the store as it was when the path exists; it succeeds, with the
\* path in the store, when the path is absent.
C9_CreateExclusive ==
    [][\A name \in FileNames, flag \in FlagWords, perm \in Perms,
          keep \in BOOLEAN, now \in Times :
          (/\ {O_CREATE, O_EXCL} \subseteq flag
           /\ last'.op = "OpenFile"
           /\ last'.via = "memmapfs"
           /\ OpenFile(name, flag, perm, keep, now)) =>
              IF normalizePath(name) \in DOMAIN data
              THEN /\ last'.err = ErrExist
                   /\ Plain(data') = Plain(data)
              ELSE /\ last'.err = NoErr
                   /\ normalizePath(name) \in DOMAIN data']_vars

\* the calls the read-only filter refuses whatever their arguments
RoRefused ==
    { "Create", "Mkdir", "MkdirAll", "Remove", "RemoveAll", "Rename",
      "Chmod", "Chtimes" }

\* C10: through the read-only filter, Create, Mkdir, MkdirAll, Remove,
\* RemoveAll, Rename, Chmod, Chtimes, and OpenFile with any of write-only,
\* read-write, append, create, truncate, return permission-denied; and no
\* call through the filter, a Write on a handle it returned included,
\* changes the source.
C10_FilterLeavesSourceUnchanged ==
    [][last'.via = "rofs" =>
          /\ Plain(data') = Plain(data)
          /\ last'.op \in RoRefused => last'.err = EPERM
          /\ \A name \in FileNames, flag \in FlagWords, perm \in Perms,
                keep \in BOOLEAN, now \in Times :
                (/\ flag \cap {O_WRONLY, O_RDWR, O_APPEND, O_CREATE, O_TRUNC} # {}
                 /\ last'.op = "OpenFile"
                 /\ RoOpenFile(name, flag, perm, keep, now)) =>
                    last'.err = EPERM]_vars

\* the flag words the read-only filter lets through
RoReadFlags ==
    { flag \in FlagWords :
        flag \cap {O_WRONLY, O_RDWR, O_APPEND, O_CREATE, O_TRUNC} = {} }

\* C11: in every state, Stat, Open, and OpenFile with a flag word free of
\* write-only, read-write, append, create and truncate, return through the
\* read-only filter exactly what the source returns for the same call in
\* that state (error, handle, and store after the call), so the filter
\* answers from the source as it is now.
C11_FilterReadsAsSource ==
    \A name \in FileNames :
        /\ RoStatResult(data, name) = DoStat(data, name)
        /\ RoOpenResult(data, name) = DoOpen(data, name)
        /\ \A flag \in RoReadFlags, perm \in Perms, now \in Times :
              RoOpenFileResult(data, name, flag, perm, now) =
                  DoOpenFile(data, name, flag, perm, now)

\* an Open through the filter has returned a read-only handle on a file
\* that a call made directly on the source created after the start
C11_Witness ==
    /\ last.via = "rofs"
    /\ last.op = "Open"
    /\ last.err = NoErr
    /\ fh.valid /\ fh.readOnly /\ fh.via = "rofs"
    /\ \E k \in DOMAIN data \ DOMAIN getData : data[k].held

\* re is a compiled pattern that name does not match
NoMatch(re, name) == re # NilRe /\ ~MatchString(re, name)

\* name is a regular file of the store st
RegularFile(st, name) ==
    /\ normalizePath(name) \in DOMAIN st
    /\ ~IsDir(st[normalizePath(name)])

\* name is a directory of the store st
Directory(st, name) ==
    /\ normalizePath(name) \in DOMAIN st
    /\ IsDir(st[normalizePath(name)])

\* r reports NotExist and leaves the store st as it was
RefusedNotExist(st, r) == IsNotExist(r.err) /\ r.st = st

\* every call on name through the filter re reports NotExist and leaves the
\* source st as it was
ReRefuses(re, st, name) ==
    /\ RefusedNotExist(st, ReOpenResult(<<re>>, st, name))
    /\ \A flag \in ReFlagWords, perm \in Perms, now \in FsTimes :
          RefusedNotExist(st, ReOpenFileResult(<<re>>, st, name, flag, perm, now))
    /\ IsNotExist(ReStatResult(<<re>>, st, name).err)
    /\ RefusedNotExist(st, ReRemoveResult(<<re>>, st, name))
    /\ \A mode \in ReModes : RefusedNotExist(st, ReChmodResult(<<re>>, st, name, mode))
    /\ \A mtime \in FsTimes :
          RefusedNotExist(st, ReChtimesResult(<<re>>, st, name, mtime))

\* every call on name through the filter re returns what the source returns
ReDelegates(re, st, name) ==
    /\ ReOpenResult(<<re>>, st, name) = DoOpen(st, name)
    /\ \A flag \in ReFlagWords, perm \in Perms, now \in FsTimes :
          ReOpenFileResult(<<re>>, st, name, flag, perm, now)
              = DoOpenFile(st, name, flag, perm, now)
    /\ ReStatResult(<<re>>, st, name) = DoStat(st, name)
    /\ ReRemoveResult(<<re>>, st, name) = DoRemove(st, name)
    /\ \A mode \in ReModes :
          ReChmodResult(<<re>>, st, name, mode) = DoChmod(st, name, mode)
    /\ \A mtime \in FsTimes :
          ReChtimesResult(<<re>>, st, name, mtime) = DoChtimes(st, name, mtime)

\* C12: through the regex filter Open, OpenFile, Stat, Remove, Chmod and
\* Chtimes on a regular file of the source that does not match the pattern
\* return NotExist and leave the source unchanged, Create of a name that
\* does not match returns NotExist and creates nothing, and the same calls
\* on a matching file or on a directory return what the source returns.
C12_FilterHidesNonMatching ==
    \A re \in Regexps, name \in ReNames :
        /\ (RegularFile(data, name) /\ NoMatch(re, name))
              => ReRefuses(re, data, name)
        /\ \A now \in FsTimes :
              IF NoMatch(re, name)
              THEN RefusedNotExist(data, ReCreateResult(<<re>>, data, name, now))
              ELSE ReCreateResult(<<re>>, data, name, now)
                       = DoCreate(data, name, now)
        /\ (Directory(data, name) \/ (RegularFile(data, name) /\ ~NoMatch(re, name)))
              => ReDelegates(re, data, name)

\* a Remove through the filter was refused with ENOENT, the error of
\* matchesName alone, while the file it named is still in the source
C12_Witness ==
    /\ last.via = "regexpfs"
    /\ last.op = "Remove"
    /\ last.err = ENOENT
    /\ \E name \in ReNames :
          RegularFile(data, name) /\ NoMatch(ReEndsB, name)

\* the handle dh came from Open through filters with compiled patterns
FilteredDir ==
    /\ dh.valid
    /\ dh.via = "regexpfs"
    /\ \A i \in 1..Len(dh.res) : dh.res[i] # NilRe

\* the entry e is a directory, or its name matches every pattern of res
Visible(res, e) ==
    e.isDir \/ \A i \in 1..Len(res) : MatchString(res[i], e.name)

\* the entries of a listing that are visible through res
VisibleOf(res, files) ==
    LET Keep(e) == Visible(res, e) IN SelectSeq(files, Keep)

\* Readdir(n) on the handle dh returns got where the same call on the
\* handle below the filters returns src
ListsVisible(got, src) ==
    /\ got.err = src.err
    /\ got.dh.out = VisibleOf(dh.res, src.dh.out)
    /\ got.dh.count = src.dh.count

Passes(re, st, name) == Directory(st, name) \/ ~NoMatch(re, name)

\* r is what a Rename(oldname, newname) through the filter re may return on
\* the store st; a newname at or below oldname is left aside, where the
\* source makes oldname anew as the directory of newname
RenamedOrRefused(re, st, oldname, newname, r) ==
    /\ r.err = NoErr =>
          /\ Passes(re, st, oldname)
          /\ Passes(re, st, newname)
          /\ ~InSubtree(normalizePath(newname), normalizePath(oldname)) =>
                /\ normalizePath(oldname) \notin DOMAIN r.st
                /\ normalizePath(newname) \in DOMAIN r.st
    /\ ~(Passes(re, st, oldname) /\ Passes(re, st, newname)) =>
          RefusedNotExist(st, r)

\* C14: Rename(old, new) through the regex filter returns success only when
\* old and new both pass the filter, a success has renamed the source (old
\* absent, new present) for files and directories alike, and when old or
\* new does not pass it returns NotExist and leaves the source unchanged.
C14_RenameBothPass ==
    \A re \in Regexps, oldname \in ReNames, newname \in ReNames :
        RenamedOrRefused(re, data, oldname, newname,
                         ReRenameResult(<<re>>, data, oldname, newname))

\* C15: RemoveAll of a path that does not exist returns no error on the
\* memmapfs.Fs and through a regex filter over it.
C15_RemoveAllAbsentSucceeds ==
    \A p \in ReNames :
        normalizePath(p) \notin DOMAIN data =>
            /\ DoRemoveAll(data, p).err = NoErr
            /\ \A re \in Regexps : ReRemoveAllResult(<<re>>, data, p).err = NoErr

\* the calls of the overlay that take a path away
CowRemovals == { "Remove", "RemoveAll", "Rename" }

\* C16: no call through the copy-on-write overlay (Create, OpenFile with
\* write intent and Write on its handle, Mkdir, MkdirAll, Remove, RemoveAll,
\* Rename, Chmod, Chtimes) changes the base: every effect is on the layer,
\* and a Remove, RemoveAll or Rename either fails and changes nothing or
\* takes away paths that the base does not have.
C16_BaseUnchanged ==
    [][last'.via = "cowfs" =>
          /\ Plain(data') = Plain(data)
          /\ last'.op \in CowRemovals =>
                IF last'.err = NoErr
                THEN (DOMAIN layer \ DOMAIN layer') \cap DOMAIN data = {}
                ELSE layer' = layer]_vars

\* a Write through the handle of a write-open has changed the copy of /a/c
\* in the layer, a file the base has and the layer did not have
C16_Witness ==
    /\ last.via = "cowfs"
    /\ last.op = "Write"
    /\ last.err = NoErr
    /\ <<"/", "a", "/", "c">> \in DOMAIN data \cap DOMAIN layer
    /\ layer[<<"/", "a", "/", "c">>].held
    /\ layer[<<"/", "a", "/", "c">>].data # data[<<"/", "a", "/", "c">>].data

\* every directory above the path p is a directory of the store st
RECURSIVE AncestorsIn(_, _)
AncestorsIn(st, p) ==
    \/ p = Root
    \/ /\ ParentPath(p) \in DOMAIN st
       /\ IsDir(st[ParentPath(p)])
       /\ AncestorsIn(st, ParentPath(p))

\* r is a CopyToLayer from the base b, of the file stored under key, that
\* returned no error
CopiedUp(b, key, r) ==
    r.err = NoErr =>
        /\ key \in DOMAIN r.layer
        /\ ~IsDir(r.layer[key])
        /\ r.layer[key].data = b[key].data
        /\ r.layer[key].modtime = b[key].modtime
        /\ AncestorsIn(r.layer, key)
        /\ r.base = b

\* the content of the file in the layer after one byte c is written at
\* offset 0 through the handle o of a write-open of it
WrittenThrough(o, c, now) ==
    DoWrite(Hold(o.layer, o.key), o.file, <<c>>, now).st[o.key].data

\* CopyToLayer and a write-open followed by a Write, on the file name that
\* the base stores under key
CopiesAndWrites(name, key, now) ==
    /\ CopiedUp(data, key, CopyToLayer(data, layer, name, "none", now))
    /\ key \notin DOMAIN layer =>
          \A c \in Bytes :
              WrittenThrough(CowOpenFileResult(data, layer, name, {O_RDWR},
                                               {"0644"}, now), c, now)
                  = <<c>> \o Tail(data[key].data)

\* C17: a CopyToLayer(base, layer, name) that returns success leaves in the
\* layer a file at name with the bytes and the modification time of the
\* base file, under directories that all exist in the layer, and leaves the
\* base as it was; so a byte written at offset 0 through a write-open of a
\* file only the base has reads back as that byte followed by the base
\* content from offset 1 on.
C17_CopyToLayerCopies ==
    \A name \in CowNames, now \in FsTimes :
        RegularFile(data, name) =>
            CopiesAndWrites(name, normalizePath(name), now)

\* CopyToLayer has returned success after making the file and its
\* directory in the layer: /a/b is there with the two bytes and the
\* modification time of the base file
C17_Witness ==
    /\ last.op = "CopyToLayer"
    /\ last.err = NoErr
    /\ last.made >= 2
    /\ <<"/", "a", "/", "b">> \in DOMAIN data \cap DOMAIN layer
    /\ layer[<<"/", "a", "/", "b">>].data = <<"x", "y">>
    /\ layer[<<"/", "a", "/", "b">>].modtime = 2

\* the first error CopyToLayer meets when the step fault fails
FirstError(fault) ==
    IF fault = "copy" THEN ErrCopy
    ELSE IF fault = "size" THEN EIO
    ELSE IF fault = "close" THEN ErrClose
    ELSE ErrChtimes

\* C18: a CopyToLayer that fails after the destination was created (the
\* stream copy, the byte count, the close or the setting of the modification
\* time fails) returns the first error met and leaves no file at name in
\* the layer.
C18_FailedCopyRemovesDestination ==
    \A name \in CowNames, fault \in Faults \ {"none"}, now \in FsTimes :
        RegularFile(data, name) =>
            /\ CopyToLayer(data, layer, name, fault, now).err = FirstError(fault)
            /\ ~InStore(CopyToLayer(data, layer, name, fault, now).layer, name)

\* the names of the children of the directory key in the store st
ChildNames(st, key) ==
    IF key \in DOMAIN st THEN { Base(c) : c \in st[key].memDir } ELSE {}

\* the names of the entries of a listing
NamesOf(files) == { files[i].name : i \in 1..Len(files) }

\* what Readdir(-1) returns on a fresh handle of the merged directory key
Listed(b, l, key) ==
    DoReaddir(CowDir(key), MergedFiles(b, l, key), -1).dh.out

\* the listing out names the children of key in b and in l, each once
UnionOf(b, l, key, out) ==
    /\ NamesOf(out) = ChildNames(b, key) \cup ChildNames(l, key)
    /\ Cardinality(NamesOf(out)) = Len(out)

\* the file under key, just created through the overlay with result r, is
\* in the merged listing of its directory and in the layer's, not the base's
CreatedInLayer(r, key) ==
    r.err = NoErr =>
        /\ Base(key) \in NamesOf(Listed(r.base, r.layer, ParentPath(key)))
        /\ Base(key) \in ChildNames(r.layer, ParentPath(key))
        /\ Base(key) \notin ChildNames(r.base, ParentPath(key))

\* C19: reading a directory through the copy-on-write overlay returns the
\* union by name of the children the directory has in the base and in the
\* layer, each name once, whether the directory is in the base only, in the
\* layer only or in both; a file created through the overlay is in the
\* union and in the layer's listing and not in the base's.
C19_ReaddirIsUnion ==
    /\ \A name \in CowDirs \cup {<<"/", "f">>} :
          UnionOf(data, layer, normalizePath(name),
                  Listed(data, layer, normalizePath(name)))
    /\ \A name \in CowNames, now \in FsTimes :
          (~InStore(data, name) /\ ~InStore(layer, name)) =>
              CreatedInLayer(CowCreateResult(data, layer, name, now),
                             normalizePath(name))

\* Readdir on the merged /a has returned three entries: b, which the base
\* and the layer both have, c of the base and d of the layer
C19_Witness ==
    /\ dh.valid
    /\ dh.via = "cowfs"
    /\ dh.key = <<"/", "a">>
    /\ last.op = "Readdir"
    /\ last.err = NoErr
    /\ Len(dh.out) = 3
    /\ ChildNames(data, dh.key) \cap ChildNames(layer, dh.key) # {}
    /\ ChildNames(data, dh.key) \ ChildNames(layer, dh.key) # {}
    /\ ChildNames(layer, dh.key) \ ChildNames(data, dh.key) # {}

\* the entries the handle dh of the memmapfs.Fs or of the overlay serves
HandleFiles ==
    IF dh.snapped THEN dh.files
    ELSE IF dh.via = "cowfs" THEN MergedFiles(data, layer, dh.key)
    ELSE HeldFiles(data)

\* r is what Readdir(n) returns on the handle d that serves files
PageOf(d, files, n, r) ==
    IF n > 0
    THEN /\ r.err = (IF d.count = Len(files) THEN EOF ELSE NoErr)
         /\ Len(r.dh.out) <= n
         /\ Len(r.dh.out) < n => d.count + Len(r.dh.out) = Len(files)
         /\ r.dh.out = SubSeq(files, d.count + 1, d.count + Len(r.dh.out))
         /\ r.dh.count = d.count + Len(r.dh.out)
         /\ r.dh.count = Len(files) =>
               \A m \in Counts : m > 0 => DoReaddir(r.dh, files, m).err = EOF
    ELSE /\ r.err = NoErr
         /\ r.dh.out = SubSeq(files, d.count + 1, Len(files))
         /\ r.dh.count = Len(files)

\* C20: on a directory handle of the memmapfs.Fs or of the overlay,
\* Readdirnames(n) with n > 0 returns at most n entries not returned before
\* and moves the cursor past them; it returns end-of-stream with no entry
\* exactly when none is left, at once for an empty directory; a call asking
\* for more than are left returns those without error and the next positive
\* call returns end-of-stream. With n <= 0 it returns every entry not
\* returned before, all of them on a fresh handle, and never end-of-stream.
C20_ReaddirnamesPages ==
    (dh.valid /\ dh.via \in {"memmapfs", "cowfs"}) =>
        \A n \in Counts :
            PageOf(dh, HandleFiles, n, DoReaddir(dh, HandleFiles, n))

\* on a merged handle a positive Readdirnames has returned end-of-stream
\* after an earlier call was given every entry of a directory that has some
C20_Witness ==
    /\ dh.valid
    /\ dh.via = "cowfs"
    /\ last.op = "Readdir"
    /\ last.err = EOF
    /\ dh.out = <<>>
    /\ Len(dh.files) >= 2
    /\ dh.count = Len(dh.files)

\* C21: through the copy-on-write overlay Mkdir(p) returns an Exist error
\* and changes neither side when p exists in the base or in the layer, as
\* Mkdir on the filesystem that holds p does, and MkdirAll(p) returns
\* success when p is a directory on either side.
C21_MkdirExistsAnywhere ==
    \A name \in CowNames \cup CowDirs, perm \in Perms :
        /\ (InStore(data, name) \/ InStore(layer, name)) =>
              CowMkdirResult(data, layer, name, perm)
                  = [base |-> data, layer |-> layer, err |-> ErrExist]
        /\ InStore(data, name) => DoMkdir(data, name, perm).err = ErrExist
        /\ InStore(layer, name) => DoMkdir(layer, name, perm).err = ErrExist
        /\ (Directory(data, name) \/ Directory(layer, name)) =>
              CowMkdirAllResult(data, layer, name, perm).err = NoErr

\* a Mkdir through the overlay was refused with Exist while the layer has
\* nothing but its root: the path is one of the base alone
C21_Witness ==
    /\ last.via = "cowfs"
    /\ last.op = "Mkdir"
    /\ last.err = ErrExist
    /\ DOMAIN layer = {Root}
    /\ DOMAIN data # {Root}

\* C25: LstatIfPossible of the read-only filter returns what its source's
\* LstatIfPossible returns when the source has that method (true from the
\* os filesystem), and the result of Stat with false when the source has
\* not (a memmapfs.Fs); a path the source lacks gives a NotExist error
\* either way.
C25_LstatIfPossibleDelegates ==
    \A name \in FileNames :
        /\ RoLstatIfPossible(<<"osfs">>, data, name)
              = OsLstatIfPossible(data, name)
        /\ RoLstatIfPossible(<<"rofs", "osfs">>, data, name)
              = RoLstatIfPossible(<<"osfs">>, data, name)
        /\ RoLstatIfPossible(<<"rofs", "memmapfs">>, data, name)
              = RoLstatIfPossible(<<"memmapfs">>, data, name)
        /\ RoLstatIfPossible(<<"memmapfs">>, data, name)
              = [info |-> DoStat(data, name).info, lstat |-> FALSE,
                 err |-> DoStat(data, name).err]
        /\ \A source \in LstatSources :
              /\ RoLstatIfPossible(source, data, name).lstat
                    = (source[Len(source)] = "osfs")
              /\ normalizePath(name) \notin DOMAIN data =>
                    RoLstatIfPossible(source, data, name).err = ErrNotExist
              /\ normalizePath(name) \in DOMAIN data =>
                    /\ RoLstatIfPossible(source, data, name).err = NoErr
                    /\ RoLstatIfPossible(source, data, name).info
                          = DoStat(data, name).info

\* LstatIfPossible through a filter whose source has the method has
\* returned true and a NotExist error, after the store had lost a path
C25_Witness ==
    /\ last.via = "rofs"
    /\ last.op = "LstatIfPossible"
    /\ last.lstat
    /\ last.err = ErrNotExist
    /\ DOMAIN data # DOMAIN getData

\* the copy the layer has of key is stale: the base's file is newer by the
\* cache duration or more
Stale(b, l, key, ttl) ==
    /\ key \in DOMAIN b
    /\ key \in DOMAIN l
    /\ ttl > 0
    /\ b[key].modtime - l[key].modtime >= ttl

\* r is what Open returns for key: the base is left alone; the file is
\* copied when it has to be and then the layer has the base's bytes and
\* time; otherwise the layer is left as it is; the handle is on the layer
CacheOpens(key, copies, r) ==
    /\ Plain(r.base) = Plain(data)
    /\ (r.status \in {"no-cache", "stale"}) = copies
    /\ (key \notin DOMAIN data /\ key \notin DOMAIN layer) =>
          r.err = ErrNotExist /\ r.layer = layer
    /\ (key \in DOMAIN data /\ copies) =>
          /\ r.err = NoErr
          /\ key \in DOMAIN r.layer
          /\ r.layer[key].data = data[key].data
          /\ r.layer[key].modtime = data[key].modtime
    /\ ~copies =>
          /\ r.err = NoErr
          /\ r.layer = layer
    /\ r.err = NoErr => r.file = NewReadOnlyFileHandle

SameOnBothSides(b, l) ==
    \A k \in DOMAIN b :
        b[k].held => k \in DOMAIN l /\ l[k].held /\ l[k].data = b[k].data

CacheWriteTwice(b, l, name, b1, n, b2, now) ==
    LET Second(c, w, h) == CacheWriteResult(w.base, w.layer, h, b2, now)
        First(c, w) == Second(c, w, CacheReadResult(w.layer, w.file, n))
        Made(c) ==
            IF c.err # NoErr THEN c
            ELSE First(c, CacheWriteResult(c.base, c.layer, c.file, b1, now))
    IN Made(CacheCreateResult(b, l, name, now))

\* ReadFile(base, name) and ReadFile(layer, name) return the same bytes
SameContent(r, name) ==
    /\ r.err = NoErr
    /\ DoOpen(r.base, name).err = NoErr
    /\ DoOpen(r.layer, name).err = NoErr
    /\ r.base[normalizePath(name)].data = r.layer[normalizePath(name)].data

\* the byte sequences written in one Write
Writes == { <<"x">>, <<"x", "y">>, <<"y", "y", "x">> }

C26_MkdirAtomic ==
    \A t \in Threads : \A u \in Threads \ {t} :
        (/\ threads[t].pc = "done"
         /\ threads[u].pc = "done"
         /\ threads[t].op = "Mkdir"
         /\ threads[t].err = NoErr) =>
            /\ ~(/\ threads[u].op = "Mkdir"
                 /\ threads[u].name = threads[t].name
                 /\ threads[u].err = NoErr)
            /\ (/\ threads[u].op = "Create"
                /\ ParentPath(threads[u].name) = threads[t].name
                /\ threads[t].name \in DOMAIN data
                /\ threads[u].name \in DOMAIN data) =>
                   threads[u].name \in data[threads[t].name].memDir

\* C27: Rename(old, new) with old # new is atomic with respect to the
\* other goroutines: it never panics, and it returns NotExist or success,
\* with new in the map when nothing else was called after it.
C27_RenameAtomic ==
    \A t \in Threads :
        threads[t].op = "Rename" =>
            /\ threads[t].pc # "panic"
            /\ threads[t].pc = "done" =>
                  /\ threads[t].err \in {NoErr, ErrNotExist}
                  /\ (/\ threads[t].err = NoErr
                      /\ threads[t].newname # threads[t].name
                      /\ \A u \in Threads \ {t} :
                            threads[u].op \in {"none", "Stat"}) =>
                         threads[t].newname \in DOMAIN data

\* t is inside RemoveAll, past unRegisterWithParent and not yet returned
InRemoveAll(t) ==
    /\ threads[t].op = "RemoveAll"
    /\ threads[t].pc \notin {"idle", "done", "panic", "ra.unregister"}
    /\ threads[t].then # "ra.unregister"

\* C28: RemoveAll holds the store lock exclusively from unregistering the
\* subtree root until the last entry is deleted, and no other goroutine
\* takes a step on the store in between.
C28_RemoveAllExclusive ==
    [][\A t \in Threads :
          InRemoveAll(t) =>
              /\ mu.w = t
              /\ \A u \in Threads \ {t} : threads'[u] = threads[u]]_vars

\* C29: the create step of OpenFile(O_RDWR|O_CREATE) keeps the node, and
\* its bytes, that the path holds at that moment.
C29_OpenFileKeepsNode ==
    [][\A t \in Threads :
          (/\ threads[t].op = "OpenFile"
           /\ threads[t].pc = "create"
           /\ threads'[t].pc # "create"
           /\ threads[t].name \in DOMAIN data) =>
              /\ threads[t].name \in DOMAIN data'
              /\ data'[threads[t].name] = data[threads[t].name]]_vars

\* the steps that take the lock of a node
NodeLockSteps ==
    { "create", "mkdir.insert", "set", "remove", "ra.unregister", "rn.body" }

\* C30: with a fair scheduler and a writer-preferring lock every call
\* returns (the goroutines are, again and again, all outside a call); a
\* node lock is taken only by a goroutine that holds the store
\* lock; and a goroutine that is not inside a call holds no lock and awaits
\* none.
C30_CallsReturnUnlocked ==
    /\ []<>(\A t \in Threads : threads[t].pc \in {"idle", "done"})
    /\ [](\A t \in Threads :
             /\ threads[t].pc \in NodeLockSteps => mu.w = t
             /\ threads[t].pc \in {"idle", "done"} =>
                   /\ mu.w # t
                   /\ t \notin mu.r
                   /\ t \notin mu.wait)

\* C31: a node is a directory if and only if its mode has the directory
\* bit set, in every state of the store: after Mkdir, after the creation of
\* a missing parent, and after Chmod with any mode.
C31_DirIffModeDir ==
    \A k \in DOMAIN data : IsDir(data[k]) <=> ModeDir \in data[k].mode

\* Readdir(-1) on the directory dir of the store st, opened through the
\* filter re, returns the entry of the child c
ListedThrough(re, st, dir, c) ==
    LET In(out) == \E i \in 1..Len(out) : out[i] = DirEntry(st, c)
    IN In(ReReaddir(<<re>>, ReaddirPage(DirFiles(st, dir), 0, -1)).out)

\* Stat and Open of the path c through the filter re both succeed
FoundThrough(re, st, c) ==
    /\ ReStatResult(<<re>>, st, c).err = NoErr
    /\ ReOpenResult(<<re>>, st, c).err = NoErr

\* C32: listing and lookup apply the same pass test: through one filter, a
\* file of a directory is returned by Readdir of the directory if and only
\* if Stat and Open of the file's full path succeed.
C32_ListedIffFound ==
    \A re \in Regexps, dir \in DOMAIN data :
        (/\ IsDir(data[dir])
         /\ ReOpenResult(<<re>>, data, dir).err = NoErr) =>
            \A c \in data[dir].memDir :
                (c \in DOMAIN data /\ ~IsDir(data[c])) =>
                    (ListedThrough(re, data, dir, c) <=> FoundThrough(re, data, c))

\* sl occurs in content as a contiguous run of bytes
Occurs(sl, content) == BytesContain(content, sl)

\* C33: FileContainsBytes and FileContainsAnyBytes on an existing file
\* return true if and only if one of the subslices occurs in the content of
\* the file, whatever its length.
C33_FoundIffOccurs ==
    (scan.pc = "done" /\ scan.err = NoErr) =>
        (scan.found <=>
            \E sl \in scan.subslices :
                Occurs(sl, data[<<"/", "a">>].data))

=============================================================================
